---- MODULE Spec2Model ----
(***************************************************************************)
(* Model of the layer registry, the control/state merge, the layer         *)
(* lifecycle methods and the LayerHost3D render driver of                  *)
(* audio-visualizer-vue.                                                   *)
(*                                                                         *)
(* Parameter values are pairs <<tag, n>>: numbers in thousandths           *)
(* (0.32 is <<"num", 320>>), booleans as <<"bool", 0 or 1>>, strings as    *)
(* <<"str", code>>.  Parameter maps are functions from key strings.        *)
(***************************************************************************)
EXTENDS Integers, Sequences, FiniteSets, TLC

\* ---------------------------------------------------------------- bounds
\* hosts (LayerHost3D component instances) that may be mounted, one at a time
MaxHosts == 2
\* animation frames one host's loop may run
MaxFrames == 2
\* length of props.activeLayerIds
MaxActive == 2
\* calls of init, and of dispose, on one layer instance
MaxInit == 2
\* register calls in the registry specification
MaxRegs == 3
\* extract calls in the extractor specification
MaxCalls == 2
\* changes of the input in the steady-input specification
MaxChanges == 2
\* frames an input is held before it changes, and frames the last input is held
MaxLead == 6
RunFrames == 100
MaxScenario == 50
MaxTimers == 3
MaxUploads == 1

\* ---------------------------------------------------------------- values
Num(n) == <<"num", n>>
Bool(b) == <<"bool", IF b THEN 1 ELSE 0>>
Str(c) == <<"str", c>>

EmptyMap == [k \in {} |-> Num(0)]

\* no featureExtractor is followed (the specifications of the registry, of the
\* persisted state, of the layers and of the driver)
NoExtractor == [impl |-> "none"]

\* a Control descriptor: createStateFromControls reads kind, key and default
Slider(key, def) == [kind |-> "slider", key |-> key, default |-> Num(def)]
Toggle(key, def) == [kind |-> "toggle", key |-> key, default |-> Bool(def)]

SeqRange(s) == {s[i] : i \in 1..Len(s)}

\* ---------------------------------------------------------------- state
VARIABLES
  subject,      \* the layer instance a registry-free specification exercises
  layers,       \* LayerRegistry.layers: a Map, kept as its entries in insertion order
  lastReg,      \* history: id -> the instance of the latest register call
  regCalls,     \* history: number of register calls
  store,        \* localStorage: storage key -> stored text, as a parsed shape
  lstate,       \* layer.state of every instance
  field,        \* the object fields of every instance (0: null/undefined, g: object g)
  sceneObjs,    \* objects <<instance, slot, g>> that are children of a scene
  hidden,       \* objects whose visible flag is false
  initialized,  \* instances that carry the driver's 'initialized' property
  initCalls,    \* history: init calls per instance
  disposeCalls, \* history: dispose calls per instance
  postDispose,  \* history: <<instance, method>> called after the instance's dispose
  hostLife,     \* per host component: "new", "mounted", "unmounted"
  hostPc,       \* per host: position of the async onMounted handler
  hasCtx,       \* per host: ctx (and renderer, scene, camera) assigned by setupThree
  rafPending,   \* per host: an animation frame callback is scheduled (rafId)
  active,       \* per host: props.activeLayerIds
  extractCalls, \* per host: calls made to the host's featureExtractor
  fx,           \* a featureExtractor: the closure's state, its last results, history
  audio,        \* the closure of useSimpleAudioManager and the window's interval timers
  trace         \* history: the calls made by the latest handler, in order

vars ==
  << subject, layers, lastReg, regCalls, store, lstate, field, sceneObjs, hidden,
     initialized, initCalls, disposeCalls, postDispose, hostLife, hostPc, hasCtx,
     rafPending, active, extractCalls, fx, audio, trace >>

layerVars ==
  << lstate, field, sceneObjs, hidden, initialized, initCalls, disposeCalls, postDispose >>
hostVars == << hostLife, hostPc, hasCtx, rafPending, active, extractCalls, fx >>

\* ---------------------------------------------------------------- numbers
\* A JavaScript number is <<"num", n>> (n in thousandths), NaN or an infinity.
\* Arithmetic follows IEEE 754: NaN is contagious, Infinity * 0 and
\* Infinity - Infinity are NaN, every comparison with NaN is false.
NaN == <<"nan", 0>>
Infinity == <<"inf", 1>>
NegInfinity == <<"inf", -1>>

isFinite(x) == x[1] = "num"
IsNaN(x) == x[1] = "nan"
Sign(x) == IF x[2] > 0 THEN 1 ELSE IF x[2] < 0 THEN -1 ELSE 0
Trunc(n, d) == IF n >= 0 THEN n \div d ELSE -((-n) \div d)
Max(a, b) == IF a < b THEN b ELSE a
Min(a, b) == IF a < b THEN a ELSE b

Neg(x) == IF IsNaN(x) THEN NaN ELSE <<x[1], -x[2]>>

Add(x, y) ==
  IF IsNaN(x) \/ IsNaN(y) THEN NaN
  ELSE IF ~isFinite(x) THEN (IF ~isFinite(y) /\ y # x THEN NaN ELSE x)
  ELSE IF ~isFinite(y) THEN y
  ELSE Num(x[2] + y[2])

Sub(x, y) == Add(x, Neg(y))

\* the product of two values in thousandths (or of one of them and a plain count
\* of Hz), rounded toward zero
Mul(x, y) ==
  IF IsNaN(x) \/ IsNaN(y) THEN NaN
  ELSE IF ~isFinite(x) \/ ~isFinite(y)
    THEN (IF Sign(x) * Sign(y) = 0 THEN NaN ELSE <<"inf", Sign(x) * Sign(y)>>)
  ELSE Num(Trunc(x[2] * y[2], 1000))

Div(x, y) ==
  IF IsNaN(x) \/ IsNaN(y) THEN NaN
  ELSE IF ~isFinite(x) THEN (IF ~isFinite(y) THEN NaN
                             ELSE <<"inf", x[2] * (IF y[2] < 0 THEN -1 ELSE 1)>>)
  ELSE IF ~isFinite(y) THEN Num(0)
  ELSE IF y[2] = 0 THEN (IF x[2] = 0 THEN NaN ELSE <<"inf", Sign(x)>>)
  ELSE Num(Trunc(x[2] * 1000 * (IF y[2] < 0 THEN -1 ELSE 1), Max(y[2], -y[2])))

Lt(x, y) ==
  /\ ~IsNaN(x)
  /\ ~IsNaN(y)
  /\ x # y
  /\ IF ~isFinite(x) THEN x[2] = -1
     ELSE IF ~isFinite(y) THEN y[2] = 1
     ELSE x[2] < y[2]

Gt(x, y) == Lt(y, x)
Ge(x, y) == ~IsNaN(x) /\ ~IsNaN(y) /\ ~Lt(x, y)

MathMax(x, y) == IF IsNaN(x) \/ IsNaN(y) THEN NaN ELSE IF Lt(x, y) THEN y ELSE x
MathMin(x, y) == IF IsNaN(x) \/ IsNaN(y) THEN NaN ELSE IF Lt(y, x) THEN y ELSE x

RECURSIVE SqrtIn(_, _, _)
SqrtIn(n, lo, hi) ==
  IF hi - lo <= 1 THEN lo
  ELSE IF ((lo + hi) \div 2) * ((lo + hi) \div 2) <= n
    THEN SqrtIn(n, (lo + hi) \div 2, hi)
    ELSE SqrtIn(n, lo, (lo + hi) \div 2)

\* the integer square root
ISqrt(n) == SqrtIn(n, 0, 46341)

\* Math.sqrt of a value in thousandths
MathSqrt(x) ==
  IF IsNaN(x) THEN NaN
  ELSE IF ~isFinite(x) THEN (IF x[2] = 1 THEN x ELSE NaN)
  ELSE IF x[2] < 0 THEN NaN
  ELSE Num(ISqrt(x[2] * 1000))

\* Math.pow(u, gamma) for u in [0,1] and 0.5 <= gamma <= 2 (both in
\* thousandths): the blend of u and u*u, or of the square root of u and u, that
\* is exact at gamma = 0.5, 1 and 2 and keeps 0, 1, NaN and the order of its
\* arguments
MathPow(u, gamma) ==
  IF gamma = 1000 THEN u
  ELSE IF gamma > 1000 THEN Mul(u, Add(Num(2000 - gamma), Mul(Num(gamma - 1000), u)))
  ELSE Add(Mul(Num(2 * (gamma - 500)), u), Mul(Num(2 * (1000 - gamma)), MathSqrt(u)))

\* Math.exp(-x) for x >= 0 in thousandths, as 1 / (1 + x + x*x/2)
ExpNeg(x) == IF x >= 7000 THEN 0 ELSE 1000000 \div (1000 + x + (x * x) \div 2000)

\* prev * a + next * (1 - a) for a coefficient a in thousandths; between finite
\* values the rounding is toward next, as the exact value is
Ema(prev, next, a) ==
  IF isFinite(prev) /\ isFinite(next)
    THEN Num(next[2] + Trunc((prev[2] - next[2]) * a, 1000))
    ELSE Add(Mul(prev, Num(a)), Mul(next, Num(1000 - a)))

Zeros(n) == [i \in 1..n |-> Num(0)]

RECURSIVE Sum(_, _)
Sum(arr, n) == IF n = 0 THEN Num(0) ELSE Add(Sum(arr, n - 1), arr[n])

\* ---------------------------------------------------------------- FeatureExtractor
\* The extractor of the Features type with bins, binsLog and binsLogRaw.
\* Unit-range values, dB and kernel weights are in thousandths; Hz and ms are
\* whole numbers.
DEFAULTS ==
  [ logBins |-> 128, fMin |-> 20, fMax |-> 8000,
    dbMin |-> Num(-100000), dbMax |-> Num(-30000),
    rmsDbMin |-> Num(-60000), rmsDbMax |-> Num(-6000), dbGamma |-> 1300,
    spatialSmooth |-> TRUE, spatialKernel |-> << 250, 500, 250 >>,
    baselineTauMs |-> 1500, deadband |-> Num(20), knee |-> Num(200),
    attackMs |-> 35, decayMs |-> 150, onsetWindowMs |-> 600, onsetK |-> Num(1500),
    peakDecayMs |-> 3000 ]

\* cfg = { ...DEFAULTS, ...opts } of the extractor, created with opts = { logBins }
cfg == [DEFAULTS EXCEPT !.logBins = fx.logBins]

clamp01(x) == IF Lt(x, Num(0)) THEN Num(0) ELSE IF Gt(x, Num(1000)) THEN Num(1000) ELSE x

mapDb01(xDb, minDb, maxDb, gamma) ==
  MathPow(clamp01(Div(Sub(xDb, minDb), Sub(maxDb, minDb))), gamma)

expCoeff(dtMs, tauMs) == ExpNeg((dtMs * 1000) \div Max(1, tauMs))

\* src[k] of a typed array or a list, k counted from 0: undefined, NaN as a
\* number, outside the array
Element(src, k) == IF k + 1 \in 1..Len(src) THEN src[k + 1] ELSE NaN

smooth3(src, k) ==
  [i \in 1..Len(src) |->
     Add(Add(Mul(Num(k[1]), Element(src, (i - 2 + Len(src)) % Len(src))),
             Mul(Num(k[2]), src[i])),
         Mul(Num(k[3]), Element(src, i % Len(src))))]

\* the index into the spectrum, in thousandths
hzToFftIndex(hz, fftLen, sampleRate) ==
  (Max(0, Min(sampleRate \div 2, hz)) * (fftLen - 1) * 1000) \div (sampleRate \div 2)

\* fMin * Math.pow(fMax / fMin, i / last), by bisection of the exponent with
\* geometric means (exact in whole Hz when last is a power of 2)
RECURSIVE LogHz(_, _, _, _)
LogHz(i, last, lo, hi) ==
  IF i = 0 THEN lo
  ELSE IF i = last THEN hi
  ELSE IF ISqrt(lo * hi) = lo THEN (IF 2 * i <= last THEN lo ELSE hi)
  ELSE IF 2 * i <= last THEN LogHz(2 * i, last, lo, ISqrt(lo * hi))
  ELSE LogHz(2 * i - last, last, ISqrt(lo * hi), hi)

FMax(sampleRate) == Min(cfg.fMax, sampleRate \div 2)
FMin(sampleRate) == Max(1, Min(cfg.fMin, FMax(sampleRate) - 1))

\* the frequencies of the log bins
logFreqs(sampleRate) ==
  [i \in 1..cfg.logBins |->
     LogHz(i - 1, cfg.logBins - 1, FMin(sampleRate), FMax(sampleRate))]

\* fftDb[i0] * (1 - frac) + fftDb[i0 + 1] * frac
interpolate(fftDb, i0, frac) ==
  Add(Mul(Element(fftDb, i0), Num(1000 - frac)), Mul(Element(fftDb, i0 + 1), Num(frac)))

\* i0 = Math.max(0, Math.min(fftN - 2, Math.floor(fftIdx)))
firstIndex(fftN, fftIdx) == Max(0, Min(fftN - 2, fftIdx \div 1000))

interpolateAt(fftDb, fftIdx) ==
  interpolate(fftDb, firstIndex(Len(fftDb), fftIdx),
              fftIdx - 1000 * firstIndex(Len(fftDb), fftIdx))

resample(fftDb, sampleRate, hz) ==
  [i \in 1..cfg.logBins |->
     interpolateAt(fftDb, hzToFftIndex(hz[i], Len(fftDb), sampleRate))]

\* steps 2 and 3: tmpA after the smoothing and the dB to unit mapping
mapped(out) ==
  [i \in 1..Len(out) |->
     mapDb01((IF cfg.spatialSmooth THEN smooth3(out, cfg.spatialKernel) ELSE out)[i],
             cfg.dbMin, cfg.dbMax, cfg.dbGamma)]

\* a per-bin array of the closure: allocated, zero-filled, when null or of
\* another length
Allocated(arr, n) == IF Len(arr) # n THEN Zeros(n) ELSE arr

baselineNext(baseline, tmpA, aBase) ==
  [i \in 1..Len(tmpA) |-> Ema(Allocated(baseline, Len(tmpA))[i], tmpA[i], aBase)]

kneeOf(d) == Mul(Div(d, Add(cfg.knee, d)), Div(d, Add(cfg.knee, d)))

deadbanded(d) == IF Lt(d, Num(0)) THEN Num(0) ELSE d

binsLogOf(tmpA, bl) ==
  [i \in 1..Len(tmpA) |-> kneeOf(deadbanded(Sub(Sub(tmpA[i], bl[i]), cfg.deadband)))]

binsPeakNext(binsPeak, binsLog, peakDecayBins) ==
  [i \in 1..Len(binsLog) |->
     MathMax(binsLog[i], Mul(Allocated(binsPeak, Len(binsLog))[i], Num(peakDecayBins)))]

\* Math.min(1, v / denom) with denom = peakNext > 1e-5 ? peakNext : 1e-5; a
\* thousandth is the smallest positive value, so 1e-5 counts as below all of them
agcUnscaled(v, peakNext) == v

agc(v, peakNext) ==
  IF Gt(peakNext, Num(0)) THEN MathMin(Num(1000), Div(v, peakNext))
  ELSE IF IsNaN(v) THEN NaN
  ELSE IF Gt(v, Num(0)) THEN Num(1000)
  ELSE IF Lt(v, Num(0)) THEN NegInfinity
  ELSE Num(0)

binsOf(binsLog, peakNext) == [i \in 1..Len(binsLog) |-> agc(binsLog[i], peakNext[i])]

\* Math.round(log(hz / fMin) / log(fMax / fMin) * last), clamped to 0..last: the
\* log bins whose upper geometric midpoint hz has reached
logIndex(f, hz) == Cardinality({i \in 1..(Len(hz) - 1) : f * f >= hz[i] * hz[i + 1]})

DivN(x, n) == IF isFinite(x) THEN Num(Trunc(x[2], n)) ELSE x

RECURSIVE SumRange(_, _, _)
SumRange(arr, ilo, ihi) ==
  IF ihi < ilo THEN Num(0) ELSE Add(SumRange(arr, ilo, ihi - 1), Element(arr, ihi))

bandOver(arr, ilo, ihi) == DivN(SumRange(arr, ilo, ihi), Max(1, ihi - ilo + 1))

band(arr, loHz, hiHz, hz) ==
  IF hiHz <= loHz THEN Num(0)
  ELSE bandOver(arr, logIndex(loHz, hz), Max(logIndex(loHz, hz), logIndex(hiHz, hz)))

Bands(low, mid, high) == [low |-> low, mid |-> mid, high |-> high]

bandsOf(arr, hz) ==
  Bands(band(arr, 20, 160, hz), band(arr, 160, 2000, hz), band(arr, 2000, 8000, hz))

\* the number of bins the centroid loop adds before its break (all of them
\* when cum never reaches the target)
rollCount(binsLog, target) ==
  IF \E n \in 1..Len(binsLog) : Ge(Sum(binsLog, n), target)
    THEN CHOOSE n \in 1..Len(binsLog) :
           /\ Ge(Sum(binsLog, n), target)
           /\ \A m \in 1..(n - 1) : ~Ge(Sum(binsLog, m), target)
    ELSE Len(binsLog)

RECURSIVE fSumOf(_, _, _)
fSumOf(binsLog, n, hz) ==
  IF n = 0 THEN Num(0)
  ELSE Add(fSumOf(binsLog, n - 1, hz), Mul(binsLog[n], Num(hz[n])))

centroidOf(wSum, fSum) == IF Gt(wSum, Num(0)) THEN Div(fSum, wSum) ELSE Num(0)

centroidHzOf(binsLog, count, hz) ==
  centroidOf(Sum(binsLog, count), fSumOf(binsLog, count, hz))

rolloffHzOf(binsLog, target, hz) ==
  IF \E n \in 1..Len(binsLog) : Ge(Sum(binsLog, n), target)
    THEN Num(hz[rollCount(binsLog, target)])
    ELSE Num(hz[1])

energyNext(energy, targetEnergy, dt) ==
  IF Gt(targetEnergy, energy)
    THEN Ema(energy, targetEnergy, expCoeff(dt, cfg.attackMs))
    ELSE Ema(energy, targetEnergy, expCoeff(dt, cfg.decayMs))

\* value / peak when peak > 1e-6, else 0
peakRelative(value, peak) == IF Gt(peak, Num(0)) THEN clamp01(Div(value, peak)) ELSE Num(0)

\* onsetRing.push(energy), then shift while longer than maxSamples
ringNext(onsetRing, energy, maxSamples) ==
  IF Len(onsetRing) + 1 > maxSamples
    THEN SubSeq(Append(onsetRing, energy), Len(onsetRing) + 2 - maxSamples, Len(onsetRing) + 1)
    ELSE Append(onsetRing, energy)

RECURSIVE sqDev(_, _, _)
sqDev(ring, n, m) ==
  IF n = 0 THEN Num(0)
  ELSE Add(sqDev(ring, n - 1, m), Mul(Sub(ring[n], m), Sub(ring[n], m)))

meanOf(ring) == DivN(Sum(ring, Len(ring)), Len(ring))
stdOf(ring, m) == MathSqrt(DivN(sqDev(ring, Len(ring), m), Max(1, Len(ring) - 1)))

onsetOf(energy, m, std) == Gt(Sub(energy, m), Add(Mul(cfg.onsetK, std), Num(20)))

\* the closure after createFeatureExtractor, and before any call
Fresh ==
  [ lastT |-> 0, baseline |-> <<>>, binsPeak |-> <<>>, onsetRing |-> <<>>,
    energy |-> Num(0), energyPeak |-> Num(0), rmsPeak |-> Num(0) ]

\* the branch of the guard; the object literal it returns is a new object
\* (obj: the identity of the returned object, here the time of the call)
guarded(st, t, dt) ==
  [ st |-> [st EXCEPT !.lastT = t], obj |-> t,
    features |->
      [ t |-> t, dt |-> dt,
        rmsDb |-> NegInfinity, rms01 |-> Num(0), rmsPeak01 |-> Num(0),
        energy |-> Num(0), energyPeak01 |-> Num(0), onset |-> FALSE,
        bands |-> Bands(Num(0), Num(0), Num(0)),
        bandsRaw |-> Bands(Num(0), Num(0), Num(0)),
        centroidHz |-> Num(0), rolloffHz |-> Num(0),
        bins |-> Zeros(cfg.logBins), binsLog |-> Zeros(cfg.logBins),
        binsLogRaw |-> Zeros(cfg.logBins) ] ]

\* the return statement, with the closure's variables as assigned by the call
returned(t, dt, rmsDb, tmpA, bl, binsLog, peakNext, rms01, energy, rmsPeak, energyPeak, ring, hz) ==
  [ st |-> [ lastT |-> t, baseline |-> bl, binsPeak |-> peakNext, onsetRing |-> ring,
             energy |-> energy, energyPeak |-> energyPeak, rmsPeak |-> rmsPeak ],
    obj |-> t,
    features |->
      [ t |-> t, dt |-> dt,
        rmsDb |-> rmsDb, rms01 |-> rms01, rmsPeak01 |-> peakRelative(rms01, rmsPeak),
        energy |-> energy, energyPeak01 |-> peakRelative(energy, energyPeak),
        onset |-> onsetOf(energy, meanOf(ring), stdOf(ring, meanOf(ring))),
        bands |-> bandsOf(binsLog, hz),
        bandsRaw |-> bandsOf(tmpA, hz),
        centroidHz |->
          centroidHzOf(binsLog,
            rollCount(binsLog, Mul(Num(850), Sum(binsLog, Len(binsLog)))), hz),
        rolloffHz |->
          rolloffHzOf(binsLog, Mul(Num(850), Sum(binsLog, Len(binsLog))), hz),
        bins |-> binsOf(binsLog, peakNext), binsLog |-> binsLog, binsLogRaw |-> tmpA ] ]

\* step 6: the loudness, the smoothed energy, the peaks and the onset ring
metered(st, t, dt, rmsDb, tmpA, bl, binsLog, peakNext, rms01, energy, hz) ==
  returned(t, dt, rmsDb, tmpA, bl, binsLog, peakNext, rms01, energy,
           MathMax(rms01, Mul(st.rmsPeak, Num(expCoeff(dt, cfg.peakDecayMs)))),
           MathMax(energy, Mul(st.energyPeak, Num(expCoeff(dt, cfg.peakDecayMs)))),
           ringNext(st.onsetRing, energy, Max(3, cfg.onsetWindowMs \div dt)),
           hz)

loudness(st, t, dt, rmsDb, tmpA, bl, binsLog, rms01, hz) ==
  metered(st, t, dt, rmsDb, tmpA, bl, binsLog,
          binsPeakNext(st.binsPeak, binsLog, expCoeff(dt, cfg.peakDecayMs)),
          rms01, energyNext(st.energy, rms01, dt), hz)

\* steps 4 and 4.5
acCoupled(st, t, dt, rmsDb, tmpA, bl, hz) ==
  loudness(st, t, dt, rmsDb, tmpA, bl, binsLogOf(tmpA, bl),
           mapDb01(rmsDb, cfg.rmsDbMin, cfg.rmsDbMax, 1000), hz)

spectral(st, t, dt, rmsDb, tmpA, hz) ==
  acCoupled(st, t, dt, rmsDb, tmpA,
            baselineNext(st.baseline, tmpA, expCoeff(dt, cfg.baselineTauMs)), hz)

\* extract(fftDb, rmsDb, sampleRate), called elapsed ms after the previous call
\* (after the creation for the first one): the closure after the call and the
\* Features it returns
extractAt(st, fftDb, rmsDb, sampleRate, dt) ==
  IF Len(fftDb) = 0 \/ ~isFinite(sampleRate) \/ sampleRate[2] <= 0
    THEN guarded(st, st.lastT + dt, dt)
    ELSE spectral(st, st.lastT + dt, dt, rmsDb,
                  mapped(resample(fftDb, sampleRate[2], logFreqs(sampleRate[2]))),
                  logFreqs(sampleRate[2]))

extractFeatures(st, fftDb, rmsDb, sampleRate, elapsed) ==
  extractAt(st, fftDb, rmsDb, sampleRate, Max(1, elapsed))

\* ---------------------------------------------------------------- FeatureExtractor (engine/features.ts)
\* The extractor of the Features type with rms and binsLog only; it fills and
\* returns one features object on every call.  It is created here with
\* opts = { numLogBins: 3, onsetWindowMs: 50 }.
Options ==
  [ minDb |-> Num(-90000), maxDb |-> Num(-10000), gamma |-> 700,
    minHzDefault |-> 20, maxHzDefault |-> 8000, numLogBins |-> 3,
    attackMs |-> 50, decayMs |-> 200, onsetWindowMs |-> 50,
    onsetK |-> Num(1500), onsetHysteresis |-> Num(30) ]

\* Math.max(4, Math.round((onsetWindowMs / 1000) * 120))
onsetCapacity == Max(4, (Options.onsetWindowMs * 120 + 500) \div 1000)

remapDbToUnit(db) ==
  IF ~isFinite(db) THEN Num(0)
  ELSE MathPow(MathMin(Num(1000),
                       MathMax(Num(0), Div(Sub(db, Options.minDb),
                                           Sub(Options.maxDb, Options.minDb)))),
               Options.gamma)

\* the loudness, given in dB (finite, not above 0) or as a linear value
rmsNormOf(rmsDbOrLin) ==
  IF isFinite(rmsDbOrLin) /\ rmsDbOrLin[2] <= 0 THEN remapDbToUnit(rmsDbOrLin)
  ELSE MathPow(MathMin(Num(1000),
                       MathMax(Num(0), IF IsNaN(rmsDbOrLin) THEN Num(0) ELSE rmsDbOrLin)),
               Options.gamma)

smoothValue(prev, next, dtMs) ==
  Ema(prev, next,
      expCoeff(dtMs, IF Gt(next, prev) THEN Options.attackMs ELSE Options.decayMs))

\* ensureResampleMap: the fractional source index of log bin i, in thousandths
fracIndexOf(i, sampleRate, srcLength) ==
  (LogHz(i - 1, Options.numLogBins - 1, Max(Options.minHzDefault, 1),
         Min(Options.maxHzDefault, sampleRate \div 2))
     * (srcLength - 1) * 1000) \div (sampleRate \div 2)

\* logBinSrcIndexL[i] and logBinSrcIndexR[i] as ensureResampleMap sets them
srcIndexL(srcLength, fracIndex) == Max(0, fracIndex \div 1000)
srcIndexR(srcLength, fracIndex) == Min(srcLength - 1, fracIndex \div 1000 + 1)

\* linear[l] * (1 - w) + linear[r] * w with l, r and w as ensureResampleMap sets them
resampledAt(linear, fracIndex) ==
  Add(Mul(Element(linear, srcIndexL(Len(linear), fracIndex)),
          Num(1000 - Min(1000, Max(0, fracIndex - 1000 * (fracIndex \div 1000))))),
      Mul(Element(linear, srcIndexR(Len(linear), fracIndex)),
          Num(Min(1000, Max(0, fracIndex - 1000 * (fracIndex \div 1000))))))

smoothedBinsNext(smoothedBins, linear, sampleRate, dtMs) ==
  [i \in 1..Options.numLogBins |->
     smoothValue(smoothedBins[i],
                 resampledAt(linear, fracIndexOf(i, sampleRate, Len(linear))), dtMs)]

\* the bins of linear whose frequency i * binHz lies in [loHz, hiHz)
BinsIn(linear, sampleRate, loHz, hiHz) ==
  { i \in 0..(Len(linear) - 1) :
      /\ i * (sampleRate \div 2) >= loHz * Len(linear)
      /\ i * (sampleRate \div 2) < Min(hiHz, sampleRate \div 2) * Len(linear) }

RECURSIVE SumOver(_, _)
SumOver(linear, ks) ==
  IF ks = {} THEN Num(0)
  ELSE Add(SumOver(linear, ks \ {CHOOSE k \in ks : \A j \in ks : j <= k}),
           Element(linear, CHOOSE k \in ks : \A j \in ks : j <= k))

averageOver(linear, ks) ==
  IF ks = {} THEN Num(0) ELSE DivN(SumOver(linear, ks), Cardinality(ks))

computeBandsFromLinear(linear, sampleRate) ==
  Bands(averageOver(linear, BinsIn(linear, sampleRate, 20, 160)),
        averageOver(linear, BinsIn(linear, sampleRate, 160, 2000)),
        averageOver(linear, BinsIn(linear, sampleRate, 2000, 8000)))

\* i * binHz in whole Hz
BinHz(i, n, sampleRate) == (i * (sampleRate \div 2)) \div Max(1, n)

RECURSIVE sumFreqMagOf(_, _, _)
sumFreqMagOf(linear, n, sampleRate) ==
  IF n = 0 THEN Num(0)
  ELSE Add(sumFreqMagOf(linear, n - 1, sampleRate),
           Mul(linear[n], Num(BinHz(n - 1, Len(linear), sampleRate))))

centroidFrom(sumMag, sumFreqMag) ==
  IF Gt(sumMag, Num(0)) THEN Div(sumFreqMag, sumMag) ELSE Num(0)

rolloffFound(linear, target, sampleRate) ==
  IF \E n \in 1..Len(linear) : Ge(Sum(linear, n), target)
    THEN BinHz(rollCount(linear, target) - 1, Len(linear), sampleRate)
    ELSE 0

rolloffFrom(linear, found, sampleRate) ==
  IF found = 0 /\ Len(linear) > 0
    THEN Num(BinHz(Len(linear) - 1, Len(linear), sampleRate))
    ELSE Num(found)

\* updateOnset, after the push: the new onsetState
onsetStateNext(onsetState, energy, threshold) ==
  IF ~onsetState
    THEN Gt(energy, Add(threshold, Options.onsetHysteresis))
    ELSE ~Lt(energy, Sub(threshold, Options.onsetHysteresis))

RECURSIVE sqDevOf(_, _, _)
sqDevOf(history, n, mean) ==
  IF n = 0 THEN Num(0)
  ELSE Add(sqDevOf(history, n - 1, mean),
           Mul(Sub(history[n], mean), Sub(history[n], mean)))

thresholdOf(history, size, mean) ==
  Add(mean, Mul(Options.onsetK, MathSqrt(DivN(sqDevOf(history, size, mean), Max(1, size)))))

onsetAfterPush(onsetState, energy, history, size) ==
  onsetStateNext(onsetState, energy,
                 thresholdOf(history, size, DivN(Sum(history, size), Max(1, size))))

\* the closure after createFeatureExtractor
FreshTs ==
  [ lastT |-> 0, currentSampleRate |-> Num(44100),
    smoothedBins |-> Zeros(Options.numLogBins), smoothedEnergy |-> Num(0),
    energyHistory |-> Zeros(onsetCapacity), energyHistorySize |-> 0,
    energyHistoryIndex |-> 0, onsetState |-> FALSE,
    features |-> [ t |-> 0, sampleRate |-> Num(44100), rms |-> Num(0), energy |-> Num(0),
                   onset |-> FALSE, bands |-> Bands(Num(0), Num(0), Num(0)),
                   centroidHz |-> Num(0), rolloffHz |-> Num(0) ] ]

\* the features object as a consumer reads it: binsLog is the smoothedBins array
Shown(st) ==
  [ t |-> st.features.t, sampleRate |-> st.features.sampleRate, rms |-> st.features.rms,
    energy |-> st.features.energy, onset |-> st.features.onset,
    bands |-> st.features.bands, centroidHz |-> st.features.centroidHz,
    rolloffHz |-> st.features.rolloffHz, binsLog |-> st.smoothedBins ]

\* return features: the one object of the closure (object 0)
returnFeatures(st) == [ st |-> st, features |-> Shown(st), obj |-> 0 ]

\* the closure after smoothing the energy and updateOnset, before features is filled
onsetUpdated(st, now, sampleRate, smoothedBins, energy, history) ==
  [ st EXCEPT !.lastT = now, !.currentSampleRate = sampleRate,
              !.smoothedBins = smoothedBins, !.smoothedEnergy = energy,
              !.energyHistory = history,
              !.energyHistoryIndex = (st.energyHistoryIndex + 1) % onsetCapacity,
              !.energyHistorySize = Min(onsetCapacity, st.energyHistorySize + 1),
              !.onsetState =
                 onsetAfterPush(st.onsetState, energy, history,
                                Min(onsetCapacity, st.energyHistorySize + 1)) ]

metersUpdated(st, now, sampleRate, smoothedBins, energy) ==
  onsetUpdated(st, now, sampleRate, smoothedBins, energy,
               [st.energyHistory EXCEPT ![st.energyHistoryIndex + 1] = energy])

\* the branch of an empty spectrum: t, sampleRate, rms, energy and onset are set
emptyFilled(st, rmsNorm) ==
  returnFeatures(
    [ st EXCEPT !.features.t = st.lastT, !.features.sampleRate = st.currentSampleRate,
                !.features.rms = rmsNorm, !.features.energy = st.smoothedEnergy,
                !.features.onset = st.onsetState ])

\* the end of extract: every field of features is set
filled(st, rmsNorm, linear, sampleRate) ==
  returnFeatures(
    [ st EXCEPT !.features.t = st.lastT, !.features.sampleRate = st.currentSampleRate,
                !.features.rms = rmsNorm, !.features.energy = st.smoothedEnergy,
                !.features.onset = st.onsetState,
                !.features.bands = computeBandsFromLinear(linear, sampleRate),
                !.features.centroidHz =
                   centroidFrom(Sum(linear, Len(linear)),
                                sumFreqMagOf(linear, Len(linear), sampleRate)),
                !.features.rolloffHz =
                   rolloffFrom(linear,
                     rolloffFound(linear, Mul(Num(850), Sum(linear, Len(linear))), sampleRate),
                     sampleRate) ])

processed(st, now, dtMs, rmsNorm, linear, sampleRate) ==
  filled(metersUpdated(st, now, Num(sampleRate),
                       smoothedBinsNext(st.smoothedBins, linear, sampleRate, dtMs),
                       smoothValue(st.smoothedEnergy, rmsNorm, dtMs)),
         rmsNorm, linear, sampleRate)

extractTsAt(st, fftDb, rmsDbOrLin, sampleRate, now, dtMs) ==
  IF Len(fftDb) = 0
    THEN emptyFilled(metersUpdated(st, now, sampleRate, st.smoothedBins,
                                   smoothValue(st.smoothedEnergy, rmsNormOf(rmsDbOrLin), dtMs)),
                     rmsNormOf(rmsDbOrLin))
    ELSE processed(st, now, dtMs, rmsNormOf(rmsDbOrLin),
                   [i \in 1..Len(fftDb) |-> remapDbToUnit(fftDb[i])], sampleRate[2])

\* extract(fftDb, rmsDbOrLin, sampleRate) of engine/features.ts, for a positive
\* finite sample rate, called elapsed ms after the previous call
extractTs(st, fftDb, rmsDbOrLin, sampleRate, elapsed) ==
  extractTsAt(st, fftDb, rmsDbOrLin, sampleRate, st.lastT + Max(1, elapsed), Max(1, elapsed))

\* ---------------------------------------------------------------- layer classes
\* One instance per layer class found in the sources (each module constructs
\* exactly one instance and registers it).
Instances ==
  { "AudioDebugBars3D", "RadialBasic3D_Line2", "RadialBasic3D", "CannonFireworks3D",
    "SynthwaveWorld3D", "SynthwaveWorld3D_Grid", "SynthwaveWorld3D_Poles" }

NoLayer == "undefined"

AudioDebugBars3D ==
  [ id |-> "audio-debug-bars-3d",
    controls |-> << Slider("barScaleY", 1000), Slider("barGap", 5), Toggle("showRaw", FALSE) >>,
    slots |-> << "binsMesh", "rmsMesh", "lowMesh", "midMesh", "highMesh" >>,
    sceneSlots |-> { "binsMesh", "rmsMesh", "lowMesh", "midMesh", "highMesh" },
    assignFirst |-> {},
    hide |-> { "binsMesh", "rmsMesh", "lowMesh", "midMesh", "highMesh" },
    guard |-> { "binsMesh", "rmsMesh", "lowMesh", "midMesh", "highMesh" },
    remove |-> { "binsMesh", "rmsMesh", "lowMesh", "midMesh", "highMesh" },
    nulls |-> { "binsMesh", "rmsMesh", "lowMesh", "midMesh", "highMesh" },
    rebuild |-> FALSE, allocKey |-> "", updCtx |-> FALSE ]

\* the Line2 variant: init goes through buildGeometry, which drops an old line
RadialBasic3D_Line2 ==
  [ id |-> "radial-basic-3d",
    controls |-> << Slider("gain", 320) >>,
    slots |-> << "line" >>,
    sceneSlots |-> { "line" },
    assignFirst |-> {},
    hide |-> { "line" }, guard |-> { "line" }, remove |-> { "line" }, nulls |-> { "line" },
    rebuild |-> TRUE, allocKey |-> "", updCtx |-> TRUE ]

RadialBasic3D ==
  [ id |-> "radial-basic-3d",
    controls |-> << Slider("radius", 280), Slider("gain", 320), Slider("thickness", 2000),
                    Toggle("onsetPulse", TRUE) >>,
    slots |-> << "line", "pos" >>,
    sceneSlots |-> { "line" },
    assignFirst |-> {},
    hide |-> { "line" }, guard |-> { "line", "pos" }, remove |-> { "line" },
    nulls |-> { "line", "pos" },
    rebuild |-> FALSE, allocKey |-> "", updCtx |-> FALSE ]

CannonFireworks3D ==
  [ id |-> "cannon-fireworks-3d",
    controls |-> << Slider("cannonCount", 12000), Slider("radius", 3200), Slider("tiltDeg", 18000),
                    Slider("baseRate", 5000), Slider("bassRateGain", 12000), Slider("spread", 180),
                    Slider("gravity", 3500), Slider("particleLifeMs", 1200000),
                    Slider("particleSizePx", 5000), Slider("maxParticles", 16000000) >>,
    slots |-> << "points", "attrs" >>,
    sceneSlots |-> { "points" },
    assignFirst |-> {},
    hide |-> { "points" }, guard |-> { "points", "attrs" }, remove |-> { "points" },
    nulls |-> { "points", "attrs" },
    rebuild |-> FALSE, allocKey |-> "maxParticles", updCtx |-> FALSE ]

SynthwaveWorld3D ==
  [ id |-> "synthwave-world-3d",
    controls |-> << Slider("gridStep", 1600), Slider("lineWidth", 120), Slider("speed", 80000),
                    Slider("roadWidth", 20000), Slider("roadFeather", 8000), Slider("fadeDepth", 10),
                    Slider("hue", 860), Toggle("tiltCamera", TRUE), Slider("lineBrightness", 1250),
                    Slider("lineAlpha", 1000), Slider("haloWidth", 0), Slider("haloBoost", 0),
                    Slider("heightGain", 30000), Slider("cols", 128000), Slider("rows", 256000),
                    Slider("sunSize", 12000), Slider("sunY", 7500), Slider("sunZ", -160000),
                    Slider("sunHueTop", 80), Slider("sunHueBot", 920), Slider("sunLines", 18000),
                    Slider("sunLineScroll", -200), Slider("sunLineMaxY", 700),
                    Slider("sunLineBase", 100), Slider("sunLineTaper", 650), Slider("sunSat", 1000),
                    Slider("sunBright", 1350), Slider("sunGlow", 1250) >>,
    slots |-> << "gridDepth", "grid", "sun" >>,
    sceneSlots |-> { "gridDepth", "grid", "sun" },
    assignFirst |-> { "gridDepth", "grid", "sun" },
    hide |-> { "gridDepth", "grid", "sun" }, guard |-> { "grid", "sun" },
    remove |-> { "gridDepth", "grid", "sun" }, nulls |-> {},
    rebuild |-> FALSE, allocKey |-> "", updCtx |-> TRUE ]

SynthwaveWorld3D_Grid ==
  [ id |-> "synthwave-world-3d",
    controls |-> << Slider("gridStep", 1600), Slider("lineWidth", 120), Slider("speed", 1800),
                    Slider("fadeDepth", 10), Slider("hue", 860), Toggle("tiltCamera", TRUE),
                    Slider("emissive", 1000) >>,
    slots |-> << "grid" >>,
    sceneSlots |-> { "grid" },
    assignFirst |-> { "grid" },
    hide |-> { "grid" }, guard |-> { "grid" }, remove |-> { "grid" }, nulls |-> {},
    rebuild |-> FALSE, allocKey |-> "", updCtx |-> FALSE ]

\* the variant with roadside poles: setEnabled and dispose touch the grid only
SynthwaveWorld3D_Poles ==
  [ id |-> "synthwave-world-3d",
    controls |-> << Slider("gridStep", 1600), Slider("lineWidth", 120), Slider("speed", 1800),
                    Slider("fadeDepth", 10), Slider("hue", 860), Toggle("tiltCamera", TRUE),
                    Slider("emissive", 1000), Slider("poleSpacing", 6000),
                    Slider("poleHeight", 1200), Slider("poleXOffset", 6500),
                    Slider("poleGlow", 1400) >>,
    slots |-> << "grid", "poles" >>,
    sceneSlots |-> { "grid", "poles" },
    assignFirst |-> { "grid", "poles" },
    hide |-> { "grid" }, guard |-> { "grid" }, remove |-> { "grid" }, nulls |-> {},
    rebuild |-> FALSE, allocKey |-> "", updCtx |-> FALSE ]

Class(l) ==
  CASE l = "AudioDebugBars3D" -> AudioDebugBars3D
    [] l = "RadialBasic3D_Line2" -> RadialBasic3D_Line2
    [] l = "RadialBasic3D" -> RadialBasic3D
    [] l = "CannonFireworks3D" -> CannonFireworks3D
    [] l = "SynthwaveWorld3D" -> SynthwaveWorld3D
    [] l = "SynthwaveWorld3D_Grid" -> SynthwaveWorld3D_Grid
    [] l = "SynthwaveWorld3D_Poles" -> SynthwaveWorld3D_Poles

LayerIds == {Class(l).id : l \in Instances}
ControlKeys(l) == {c.key : c \in SeqRange(Class(l).controls)}
SlotSet(l) == SeqRange(Class(l).slots)

\* ---------------------------------------------------------------- LayerRegistry
\* Map.prototype.set: an existing key keeps its position and gets the new value
MapSet(m, id, inst) ==
  IF \E i \in 1..Len(m) : m[i].id = id
    THEN [i \in 1..Len(m) |-> IF m[i].id = id THEN [id |-> id, inst |-> inst] ELSE m[i]]
    ELSE Append(m, [id |-> id, inst |-> inst])

\* a registry that keeps the first registration of an id
registerFirstWins(reg, l) ==
  IF \E i \in 1..Len(reg) : reg[i].id = Class(l).id
    THEN reg
    ELSE Append(reg, [id |-> Class(l).id, inst |-> l])

register(reg, l) == MapSet(reg, Class(l).id, l)

get(reg, id) ==
  IF \E i \in 1..Len(reg) : reg[i].id = id
    THEN reg[CHOOSE i \in 1..Len(reg) : reg[i].id = id].inst
    ELSE NoLayer

all(reg) == [i \in 1..Len(reg) |-> reg[i].inst]

\* ---------------------------------------------------------------- history helpers
\* one call made by a handler: the method, its receiver, a number argument, the outcome
Ev(op, on, n, res) == [op |-> op, on |-> on, n |-> n, res |-> res]

\* ---------------------------------------------------------------- persistence
STORAGE_PREFIX == "reveri.layer.state."
StorageKey(id) == <<STORAGE_PREFIX, id>>
StorageKeys == {StorageKey(id) : id \in LayerIds}

\* What localStorage holds under a key, by what JSON.parse makes of it:
\*   "missing" (getItem gives null), "empty" (the empty string), "malformed"
\*   (JSON.parse throws), or a JSON value of kind "obj", "arr", "str", "num", "null".
\* m holds the own enumerable properties of the parsed value (index keys for
\* arrays and strings).
Raw(kind, m) == [k |-> kind, m |-> m]
Missing == Raw("missing", EmptyMap)

loadState(st, id) ==
  LET raw == st[StorageKey(id)]
  IN  IF raw.k \in {"missing", "empty"} THEN Raw("obj", EmptyMap)
      ELSE IF raw.k = "malformed" THEN Raw("obj", EmptyMap)
      ELSE raw

\* JSON.stringify of a property value: a non-finite number becomes null
JsonValue(v) == IF v[1] \in {"nan", "inf"} THEN <<"null", 0>> ELSE v

\* JSON.stringify(state) read back by JSON.parse: undefined properties are dropped
stringify(state) ==
  Raw("obj", [key \in {k \in DOMAIN state : state[k][1] # "undef"} |-> JsonValue(state[key])])

\* a saveState whose write is lost
saveStateLost(st, id, state, accepted) == st

\* saveState(id, state); accepted is false when setItem throws (quota, storage
\* disabled), which the empty catch swallows
saveState(st, id, state, accepted) ==
  IF accepted THEN [st EXCEPT ![StorageKey(id)] = stringify(state)] ELSE st

\* object spread of a value: its own enumerable properties
OwnProps(v) == IF v.k \in {"obj", "arr", "str"} THEN v.m ELSE EmptyMap

\* base[c.key] = c.default for every control, a later control of the same key winning
BaseOf(controls) ==
  [key \in {c.key : c \in SeqRange(controls)} |->
     LET last == CHOOSE i \in 1..Len(controls) :
                   /\ controls[i].key = key
                   /\ \A j \in 1..Len(controls) : controls[j].key = key => j <= i
     IN  controls[last].default]

\* { ...base, ...saved } with base and saved swapped
MergeDefaultsFirst(base, saved) == base @@ saved

\* { ...base, ...saved }
Merge(base, saved) == saved @@ base

createStateFromControls(st, l) ==
  LET saved == loadState(st, Class(l).id)
      base == BaseOf(Class(l).controls)
  IN  Merge(base, OwnProps(saved))

\* ---------------------------------------------------------------- audio manager (composables/useSimpleAudioManager.ts)
\* The closure of the composable as a record.  Times are counted in steps of the
\* interval timer (0.1 s).  timeUpdateTimer is 0 for null, else the id that
\* setInterval returned; intervals is the set of interval timers of the window
\* that were set and not cleared.  startPc is the await at which the call of
\* startPlayback that passed the guard is suspended; uploads holds the
\* suspended calls of handleFileUpload.  The microphone is left out:
\* currentSource is the player or null.

useSimpleAudioManager ==
  [ isInitialized |-> FALSE, contextRunning |-> FALSE, isPlaying |-> FALSE,
    currentSource |-> "null", audioFile |-> 0, error |-> FALSE,
    duration |-> 0, currentTime |-> 0,
    timeUpdateTimer |-> 0, isStartingPlayback |-> FALSE,
    playerState |-> "stopped", buffer |-> 0,
    intervals |-> {}, setIntervalCalls |-> 0,
    startPc |-> "idle", uploads |-> <<>> ]

NoAudio == useSimpleAudioManager

\* initialize, once its await Tone.start() has settled
initialize(m, running) == [m EXCEPT !.isInitialized = TRUE, !.contextRunning = running]

\* timeUpdateTimer = window.setInterval(...): the variable is assigned whatever it held
setTimeUpdateTimer(m) ==
  [m EXCEPT !.setIntervalCalls = @ + 1,
            !.intervals = @ \cup {m.setIntervalCalls + 1},
            !.timeUpdateTimer = m.setIntervalCalls + 1]

\* if (timeUpdateTimer) { clearInterval(timeUpdateTimer); timeUpdateTimer = null }
clearTimeUpdateTimer(m) ==
  IF m.timeUpdateTimer # 0
    THEN [m EXCEPT !.intervals = @ \ {m.timeUpdateTimer}, !.timeUpdateTimer = 0]
    ELSE m

isPlayerSource(m) == m.currentSource = "player"

pausePlayback(m) ==
  IF m.currentSource = "null" THEN m
  ELSE clearTimeUpdateTimer(
         [m EXCEPT !.playerState = IF isPlayerSource(m) THEN "stopped" ELSE @,
                   !.isPlaying = FALSE, !.error = FALSE])

stopPlayback(m) ==
  IF m.currentSource = "null" THEN m
  ELSE [pausePlayback(m) EXCEPT !.currentTime = 0]

\* startPlayback up to its first await, or to its end
startPlayback(m) ==
  IF m.isStartingPlayback THEN m
  ELSE IF m.currentSource = "null" THEN m
  ELSE IF ~m.contextRunning
    THEN [m EXCEPT !.isStartingPlayback = TRUE, !.startPc = "Tone.start"]
    ELSE [m EXCEPT !.isStartingPlayback = TRUE, !.playerState = "stopped",
                   !.startPc = "stop"]

\* startPlayback after await Tone.start(): player.stop(), then the 50 ms delay
startAfterContext(m) ==
  [m EXCEPT !.contextRunning = TRUE, !.playerState = "stopped", !.startPc = "stop"]

\* startPlayback after the 50 ms delay: player.start(0, 0, duration), then 100 ms
startAfterStop(m) == [m EXCEPT !.playerState = "started", !.startPc = "start"]

\* startPlayback after the 100 ms delay, to the end of its finally block
startAfterStart(m) ==
  [ setTimeUpdateTimer([m EXCEPT !.currentTime = 0]) EXCEPT
      !.isPlaying = TRUE, !.error = FALSE, !.isStartingPlayback = FALSE,
      !.startPc = "idle" ]

handlePlay(m) ==
  IF isPlayerSource(m) /\ ~m.isPlaying
    THEN IF m.currentTime > 0
           THEN [ setTimeUpdateTimer([m EXCEPT !.playerState = "started"]) EXCEPT
                    !.isPlaying = TRUE, !.error = FALSE ]
           ELSE startPlayback(m)
    ELSE m

handlePause(m) == IF isPlayerSource(m) /\ m.isPlaying THEN pausePlayback(m) ELSE m

handleStop(m) == IF isPlayerSource(m) THEN stopPlayback(m) ELSE m

seekRestarted(m) == IF m.isPlaying THEN setTimeUpdateTimer(m) ELSE m

handleSeek(m, time) ==
  IF isPlayerSource(m) /\ m.buffer # 0
    THEN seekRestarted([ clearTimeUpdateTimer(m) EXCEPT
                           !.playerState = "started", !.currentTime = time ])
    ELSE m

\* handleFileUpload(null), after the current playback was stopped
fileCleared(m) ==
  [ clearTimeUpdateTimer(m) EXCEPT
      !.audioFile = 0, !.currentSource = "null", !.duration = 0, !.currentTime = 0,
      !.playerState = "stopped", !.error = FALSE ]

\* handleFileUpload(file), after the current playback was stopped, up to
\* await player.load(url)
fileLoading(m, file) ==
  [m EXCEPT !.audioFile = file, !.uploads = Append(@, [file |-> file, pc |-> "load"])]

\* handleFileUpload up to its first await that yields to other handlers, or to
\* its end.  await stopPlayback() resumes in the microtask that follows the
\* handler's own task, before any other handler or timer runs.
handleFileUpload(m, file) ==
  IF ~m.isInitialized THEN m
  ELSE IF file = 0
    THEN fileCleared(IF m.isPlaying THEN stopPlayback(m) ELSE m)
    ELSE fileLoading(IF m.isPlaying THEN stopPlayback(m) ELSE m, file)

Without(s, i) == SubSeq(s, 1, i - 1) \o SubSeq(s, i + 1, Len(s))

\* handleFileUpload after await player.load(url): on a rejection the catch
\* block; else duration and currentSource are set, then the 100 ms delay
uploadAfterLoad(m, i, ok, bufferDuration) ==
  IF ~ok
    THEN [m EXCEPT !.error = TRUE, !.uploads = Without(@, i)]
    ELSE [m EXCEPT !.buffer = m.uploads[i].file, !.duration = bufferDuration,
                   !.currentSource = "player", !.uploads[i].pc = "delay"]

\* handleFileUpload after the 100 ms delay, to its end
uploadAfterDelay(m, i) ==
  [m EXCEPT !.playerState = "stopped", !.isPlaying = FALSE, !.currentTime = 0,
            !.error = FALSE, !.uploads = Without(@, i)]

\* the callback of every interval timer
timeUpdate(m) ==
  IF m.isPlaying /\ m.duration > 0
    THEN [m EXCEPT !.currentTime = Min(m.currentTime + 1, m.duration)]
    ELSE m

\* ---------------------------------------------------------------- initial values
\* component instances: those of the driver specification, and one more for
\* the remount specification
HostIds == 1..MaxHosts
RemountIds == 1..(MaxHosts + 1)

InitLayers ==
  /\ lstate = [l \in Instances |-> EmptyMap]
  /\ field = [l \in Instances |-> [s \in SlotSet(l) |-> 0]]
  /\ sceneObjs = {}
  /\ hidden = {}
  /\ initialized = {}
  /\ initCalls = [l \in Instances |-> 0]
  /\ disposeCalls = [l \in Instances |-> 0]
  /\ postDispose = {}

IdleHosts ==
  /\ hostLife = [h \in RemountIds |-> "new"]
  /\ hostPc = [h \in RemountIds |-> "none"]
  /\ hasCtx = [h \in RemountIds |-> FALSE]
  /\ rafPending = [h \in RemountIds |-> FALSE]
  /\ active = [h \in RemountIds |-> <<>>]
  /\ extractCalls = [h \in RemountIds |-> 0]

InitHosts == IdleHosts /\ fx = NoExtractor

EmptyRegistry ==
  /\ layers = <<>>
  /\ lastReg = [id \in LayerIds |-> NoLayer]
  /\ regCalls = 0

\* ---------------------------------------------------------------- registry specification
\* Any sequence of register calls on a fresh LayerRegistry.
InitRegistry ==
  /\ subject = NoLayer
  /\ EmptyRegistry
  /\ store = [key \in StorageKeys |-> Missing]
  /\ InitLayers
  /\ InitHosts
  /\ trace = <<>>
  /\ audio = NoAudio

Register(l) ==
  /\ regCalls < MaxRegs
  /\ layers' = register(layers, l)
  /\ lastReg' = [lastReg EXCEPT ![Class(l).id] = l]
  /\ regCalls' = regCalls + 1
  /\ trace' = << Ev("register", l, 0, "ok") >>
  /\ UNCHANGED << audio, subject, store, layerVars, hostVars >>

NextRegistry == \E l \in Instances : Register(l)

SpecRegistry == InitRegistry /\ [][NextRegistry]_vars

RegisteredIds == {id \in LayerIds : lastReg[id] # NoLayer}

\* C1: after any sequence of register calls, get(id) is the instance most
\* recently registered under id (undefined when none was), and all() holds
\* exactly one instance per distinct registered id.
C1_LastRegistrationWins ==
  /\ \A id \in LayerIds \cup {"debug"} :
       get(layers, id) = (IF id \in LayerIds THEN lastReg[id] ELSE NoLayer)
  /\ SeqRange(all(layers)) = {lastReg[id] : id \in RegisteredIds}
  /\ Len(all(layers)) = Cardinality(RegisteredIds)

\* two register calls under one id, the later one with the other instance
C1_Witness ==
  /\ regCalls = 2
  /\ RegisteredIds = {"radial-basic-3d"}
  /\ lastReg["radial-basic-3d"] = "RadialBasic3D"
  /\ trace = << Ev("register", "RadialBasic3D", 0, "ok") >>
  /\ get(layers, "radial-basic-3d") = "RadialBasic3D"

\* ---------------------------------------------------------------- configuration specification
\* createStateFromControls applied to one layer instance under any stored text.
OverrideVals == {Num(-1000), Str(7)}
CandKeys(l) ==
  { Class(l).controls[1].key, Class(l).controls[Len(Class(l).controls)].key, "bogus" }
ObjRaws(l) ==
  {Raw("obj", f) : f \in UNION {[K -> OverrideVals] : K \in SUBSET CandKeys(l)}}
Raws(l) ==
  ObjRaws(l) \cup
  { Missing, Raw("empty", EmptyMap), Raw("malformed", EmptyMap), Raw("null", EmptyMap),
    Raw("num", EmptyMap), Raw("str", ("0" :> Str(1)) @@ ("1" :> Str(2))),
    Raw("arr", ("0" :> Num(5000))) }

InitConfig ==
  /\ subject \in Instances
  /\ EmptyRegistry
  /\ store = [key \in StorageKeys |-> Missing]
  /\ InitLayers
  /\ InitHosts
  /\ trace = <<>>
  /\ audio = NoAudio

\* the store is external: anything may write the layer's entry
StoreSet(raw) ==
  /\ store' = [store EXCEPT ![StorageKey(Class(subject).id)] = raw]
  /\ trace' = << Ev("setItem", subject, 0, "ok") >>
  /\ UNCHANGED << audio, subject, layers, lastReg, regCalls, layerVars, hostVars >>

Configure ==
  /\ lstate' = [lstate EXCEPT ![subject] = createStateFromControls(store, subject)]
  /\ trace' = << Ev("createStateFromControls", subject, 0, "ok") >>
  /\ UNCHANGED << audio, subject, layers, lastReg, regCalls, store, field, sceneObjs, hidden,
                  initialized, initCalls, disposeCalls, postDispose, hostVars >>

\* what a control of the panel can set its key to: a number for a slider (two
\* of them here), a boolean for a toggle
InputVals(c) ==
  IF c.kind = "slider" THEN {c.default, Num(c.default[2] + 1000)} ELSE {Bool(TRUE), Bool(FALSE)}

persist(l, state, accepted) ==
  /\ lstate' = [lstate EXCEPT ![l] = state]
  /\ store' = saveState(store, Class(l).id, state, accepted)
  /\ trace' = << Ev("persist", l, IF accepted THEN 1 ELSE 0, "ok") >>

\* LayerControls: v-model writes layer.state[ctrl.key], then the same event
\* calls persist(layer)
ControlInput(c, v, accepted) ==
  /\ persist(subject, (c.key :> v) @@ lstate[subject], accepted)
  /\ UNCHANGED << audio, subject, layers, lastReg, regCalls, field, sceneObjs, hidden,
                  initialized, initCalls, disposeCalls, postDispose, hostVars >>

NextConfig ==
  \/ \E raw \in Raws(subject) : StoreSet(raw)
  \/ Configure
  \/ \E c \in {d \in SeqRange(Class(subject).controls) : d.key \in CandKeys(subject)},
        accepted \in BOOLEAN :
       \E v \in InputVals(c) : ControlInput(c, v, accepted)

SpecConfig == InitConfig /\ [][NextConfig]_vars

JustConfigured(l) == trace = << Ev("createStateFromControls", l, 0, "ok") >>
StoredFor(l) == store[StorageKey(Class(l).id)]
\* the stored text is a JSON value that holds a property k
Holds(raw, key) == raw.k \in {"obj", "arr", "str"} /\ key \in DOMAIN raw.m
DefaultOf(l, key) ==
  (CHOOSE c \in SeqRange(Class(l).controls) : c.key = key).default

\* C2: after createStateFromControls(layer), every control key has the
\* persisted value when the store holds one for the layer id, and the
\* control's default otherwise.
C2_PersistedOverridesDefaults ==
  \A l \in Instances :
    JustConfigured(l) =>
      \A key \in ControlKeys(l) :
        /\ key \in DOMAIN lstate[l]
        /\ lstate[l][key] =
             IF Holds(StoredFor(l), key) THEN StoredFor(l).m[key] ELSE DefaultOf(l, key)

\* a layer configured while the store overrides one control and not another
C2_Witness ==
  /\ subject = "CannonFireworks3D"
  /\ JustConfigured(subject)
  /\ StoredFor(subject) = Raw("obj", ("maxParticles" :> Num(-1000)))
  /\ lstate[subject]["maxParticles"] = Num(-1000)
  /\ lstate[subject]["cannonCount"] = Num(12000)

\* C3: after createStateFromControls(layer), the key set of layer.state is
\* exactly the set of the layer's control keys; persisted keys that belong to
\* no control never appear.
C3_OnlyControlKeys ==
  \A l \in Instances : JustConfigured(l) => DOMAIN lstate[l] = ControlKeys(l)

C12_MalformedFallsBackToDefaults ==
  \A l \in Instances :
    (JustConfigured(l) /\ StoredFor(l).k # "obj") =>
      /\ loadState(store, Class(l).id) = Raw("obj", EmptyMap)
      /\ lstate[l] = BaseOf(Class(l).controls)

\* ---------------------------------------------------------------- layer methods
\* The methods act on a record of the layer state, so that a handler can chain
\* the calls it makes; log collects the calls and threw tells that the last
\* call threw (the handler's remaining statements are then skipped).
World ==
  [ lstate |-> lstate, field |-> field, sceneObjs |-> sceneObjs, hidden |-> hidden,
    initialized |-> initialized, initCalls |-> initCalls, disposeCalls |-> disposeCalls,
    postDispose |-> postDispose, log |-> <<>>, threw |-> FALSE ]

Logged(w, e) == [w EXCEPT !.log = Append(@, e)]
Thrown(w, e) == [w EXCEPT !.log = Append(@, e), !.threw = TRUE]
AfterDispose(w, l, method) ==
  IF w.disposeCalls[l] > 0 THEN w.postDispose \cup {<<l, method>>} ELSE w.postDispose

\* new Float32Array(v): a RangeError for a number that truncates below zero
AllocThrows(v) == v[1] = "num" /\ v[2] <= -1000

\* the objects the fields named in slots point to
Pointed(w, l, slots) == {<<l, s, w.field[l][s]>> : s \in {t \in slots : w.field[l][t] # 0}}

\* buildGeometry: dispose and detach the old line first
rebuilt(w, l, c) ==
  IF c.rebuild
    THEN [w EXCEPT !.sceneObjs = @ \ Pointed(w, l, c.sceneSlots),
                   !.field[l] = [s \in SeqRange(c.slots) |->
                                   IF s \in c.sceneSlots THEN 0 ELSE @[s]]]
    ELSE w

\* the statements of init after createStateFromControls: c is the class, g
\* numbers the objects this call creates, st is the state it has just built
initBody(w, l, c, g, st, ctxOk) ==
  IF c.allocKey # "" /\ AllocThrows(st[c.allocKey])
    THEN Thrown(w, Ev("init", l, g, "threw"))
  ELSE IF ~ctxOk
    THEN Thrown([rebuilt(w, l, c) EXCEPT
                   !.field[l][c.slots[1]] = IF c.slots[1] \in c.assignFirst THEN g ELSE @],
                Ev("init", l, g, "threw"))
  ELSE Logged([rebuilt(w, l, c) EXCEPT
                 !.field[l] = [s \in SeqRange(c.slots) |-> g],
                 !.sceneObjs = @ \cup {<<l, s, g>> : s \in c.sceneSlots}],
              Ev("init", l, g, "ok"))

initState(w, l, c, g, st, ctxOk) ==
  initBody([w EXCEPT !.lstate[l] = st, !.initCalls[l] = g,
                     !.postDispose = AfterDispose(w, l, "init")],
           l, c, g, st, ctxOk)

\* init(ctx).  ctxOk is false when the driver passes its unassigned ctx: the
\* first ctx.scene / ctx.dpr access then throws a TypeError.
init(w, l, ctxOk) ==
  initState(w, l, Class(l), w.initCalls[l] + 1, createStateFromControls(store, l), ctxOk)

updateBody(w, l, c, ctxOk, fgen) ==
  IF \E s \in c.guard : w.field[l][s] = 0
    THEN Logged(w, Ev("update", l, fgen, "skipped"))
  ELSE IF c.updCtx /\ ~ctxOk
    THEN Thrown(w, Ev("update", l, fgen, "threw"))
  ELSE Logged(w, Ev("update", l, fgen, "ran"))

\* update(ctx, f): returns at once unless every guarded field is set; fgen
\* identifies the Features object handed in
update(w, l, ctxOk, fgen) ==
  updateBody([w EXCEPT !.postDispose = AfterDispose(w, l, "update")], l, Class(l), ctxOk, fgen)

visible(w, objs, on) == [w EXCEPT !.hidden = IF on THEN @ \ objs ELSE @ \cup objs]

\* a setEnabled that detaches what it hides
setEnabledDetaching(w, l, on) ==
  Logged([visible(w, Pointed(w, l, Class(l).hide), on) EXCEPT
            !.sceneObjs = IF on THEN @ ELSE @ \ Pointed(w, l, Class(l).hide)],
         Ev("setEnabled", l, IF on THEN 1 ELSE 0, "ok"))

setEnabled(w, l, on) ==
  Logged(visible(w, Pointed(w, l, Class(l).hide), on),
         Ev("setEnabled", l, IF on THEN 1 ELSE 0, "ok"))

disposeBody(w, l, c) ==
  Logged([w EXCEPT !.sceneObjs = @ \ Pointed(w, l, c.remove),
                   !.field[l] = [s \in SeqRange(c.slots) |-> IF s \in c.nulls THEN 0 ELSE @[s]],
                   !.disposeCalls[l] = @ + 1],
         Ev("dispose", l, 0, "ok"))

dispose(w, l) == disposeBody(w, l, Class(l))

\* the handler's outcome becomes the next state
Commit(w) ==
  /\ lstate' = w.lstate
  /\ field' = w.field
  /\ sceneObjs' = w.sceneObjs
  /\ hidden' = w.hidden
  /\ initialized' = w.initialized
  /\ initCalls' = w.initCalls
  /\ disposeCalls' = w.disposeCalls
  /\ postDispose' = w.postDispose
  /\ trace' = w.log

WithinCaps(w) == \A l \in Instances : w.initCalls[l] <= MaxInit /\ w.disposeCalls[l] <= MaxInit

\* a handler ends with outcome w
Done(w) == WithinCaps(w) /\ Commit(w)

\* ---------------------------------------------------------------- layer specification
\* The Layer interface of one instance called directly, in any order.
BadAlloc(l) == Raw("obj", (Class(l).allocKey :> Num(-1000)))

InitLayer ==
  /\ subject \in Instances
  /\ EmptyRegistry
  /\ \E raw \in {Missing} \cup (IF Class(subject).allocKey # "" THEN {BadAlloc(subject)} ELSE {}) :
       store = [key \in StorageKeys |->
                  IF key = StorageKey(Class(subject).id) THEN raw ELSE Missing]
  /\ InitLayers
  /\ InitHosts
  /\ trace = <<>>
  /\ audio = NoAudio

Call(w) ==
  /\ Done(w)
  /\ UNCHANGED << audio, subject, layers, lastReg, regCalls, store, hostVars >>

CallInit(ctxOk) == Call(init(World, subject, ctxOk))
CallUpdate(ctxOk) == Call(update(World, subject, ctxOk, 0))
CallSetEnabled(on) == Call(setEnabled(World, subject, on))
CallDispose == Call(dispose(World, subject))

NextLayer ==
  \/ \E ctxOk \in BOOLEAN : CallInit(ctxOk)
  \/ \E ctxOk \in BOOLEAN : CallUpdate(ctxOk)
  \/ \E on \in BOOLEAN : CallSetEnabled(on)
  \/ CallDispose

SpecLayer == InitLayer /\ [][NextLayer]_vars

SceneCount(l) == Cardinality({o \in sceneObjs : o[1] = l})
JustCalled(l, op, res) == Len(trace) = 1 /\ trace[1].op = op /\ trace[1].on = l /\ trace[1].res = res

\* C5: calling init(ctx) twice on the same layer instance does not duplicate
\* allocated resources: the number of objects the layer has in the scene after
\* the second call equals the number after the first call.
C5_InitIdempotent ==
  [][\A l \in Instances :
       (JustCalled(l, "init", "ok") /\ JustCalled(l, "init", "ok")') =>
         SceneCount(l)' = SceneCount(l)]_vars

\* C7: after setEnabled(false) on an initialized layer every scene object the
\* layer added during init has visible = false.
C7_DisabledLayerInvisible ==
  \A l \in Instances :
    (Len(trace) = 1 /\ trace[1].op = "setEnabled" /\ trace[1].on = l /\ trace[1].n = 0) =>
      \A o \in sceneObjs : o[1] = l => o \in hidden

\* ---------------------------------------------------------------- LayerHost3D
\* The modules LayerHost3D imports, each registering its instance on load.
Imported == << "RadialBasic3D_Line2", "CannonFireworks3D", "AudioDebugBars3D", "SynthwaveWorld3D" >>

RECURSIVE registerAll(_, _)
registerAll(reg, ls) ==
  IF ls = <<>> THEN reg ELSE registerAll(register(reg, Head(ls)), Tail(ls))

\* The ids App.vue passes as props.activeLayerIds: 'simple' and 'circle' map to
\* the two registered ids below, every other selector value ('synthwave',
\* 'debug', 'synth') passes through and names no registered layer; "debug"
\* stands for those.  The selector never leaves the selection empty and App.vue
\* drops duplicates.
ActivePool == {"radial-basic-3d", "cannon-fireworks-3d", "debug"}

RECURSIVE SeqsUpTo(_, _)
SeqsUpTo(S, n) ==
  IF n = 0 THEN {<<>>}
  ELSE LET shorter == SeqsUpTo(S, n - 1)
       IN  shorter \cup {Append(q, x) : q \in {r \in shorter : Len(r) = n - 1}, x \in S}

ActiveChoices ==
  {q \in SeqsUpTo(ActivePool, MaxActive) :
     q # <<>> /\ \A i, j \in 1..Len(q) : q[i] = q[j] => i = j}

\* initLayers(ids): no try/catch, so a throwing init ends the loop and the handler
RECURSIVE initLayers(_, _, _)
\* r is what layer.init(ctx) left behind
initFlagged(r, layer, rest, ctxOk) ==
  IF r.threw THEN r
  ELSE initLayers(setEnabled([r EXCEPT !.initialized = @ \cup {layer}], layer, TRUE), rest, ctxOk)

\* one pass of the for loop
initLayer(w, layer, rest, ctxOk) ==
  IF layer = NoLayer THEN initLayers(w, rest, ctxOk)
  ELSE IF layer \in w.initialized THEN initLayers(setEnabled(w, layer, TRUE), rest, ctxOk)
  ELSE initFlagged(init(w, layer, ctxOk), layer, rest, ctxOk)

initLayers(w, ids, ctxOk) ==
  IF w.threw \/ ids = <<>> THEN w
  ELSE initLayer(w, get(layers, Head(ids)), Tail(ids), ctxOk)

RECURSIVE setEnabledEach(_, _, _)
setEnabledEach(w, ls, ids) ==
  IF ls = <<>> THEN w
  ELSE setEnabledEach(setEnabled(w, Head(ls), Class(Head(ls)).id \in SeqRange(ids)), Tail(ls), ids)

setLayerEnabled(w, ids) == IF w.threw THEN w ELSE setEnabledEach(w, all(layers), ids)

RECURSIVE disposeEach(_, _)
disposeEach(w, ls) == IF ls = <<>> THEN w ELSE disposeEach(dispose(w, Head(ls)), Tail(ls))

RECURSIVE updateEach(_, _, _, _)
updateEach(w, ids, ctxOk, fgen) ==
  IF w.threw \/ ids = <<>> THEN w
  ELSE LET layer == get(layers, Head(ids))
       IN  IF layer = NoLayer THEN updateEach(w, Tail(ids), ctxOk, fgen)
           ELSE updateEach(update(w, layer, ctxOk, fgen), Tail(ids), ctxOk, fgen)

\* controls?.update() and renderer.render(scene, camera): renderer is unassigned
\* when setupThree returned early
render(w, h) ==
  IF w.threw THEN w
  ELSE IF ~hasCtx[h] THEN Thrown(w, Ev("render", NoLayer, h, "threw"))
  ELSE Logged(w, Ev("render", NoLayer, h, "ok"))

extract(w, gen) == Logged(w, Ev("extract", NoLayer, gen, "ok"))

\* a loop that hands the layers the Features of the previous frame
loopStaleFeatures(w, h) ==
  render(updateEach(extract(w, extractCalls[h] + 1), active[h], hasCtx[h], extractCalls[h]), h)

\* the body of loop after it has re-armed requestAnimationFrame: extract once,
\* update the active layers with the result, render.  resize() touches only the
\* canvas size.
loop(w, h) ==
  render(updateEach(extract(w, extractCalls[h] + 1), active[h], hasCtx[h], extractCalls[h] + 1), h)

Handler(name, h) == Logged(World, Ev(name, NoLayer, h, "ok"))

InitDriver ==
  /\ subject = NoLayer
  /\ layers = registerAll(<<>>, Imported)
  /\ lastReg = [id \in LayerIds |-> get(registerAll(<<>>, Imported), id)]
  /\ regCalls = Len(Imported)
  /\ \E raw \in {Missing, BadAlloc("CannonFireworks3D")} :
       store = [key \in StorageKeys |->
                  IF key = StorageKey("cannon-fireworks-3d") THEN raw ELSE Missing]
  /\ InitLayers
  /\ InitHosts
  /\ trace = <<>>
  /\ audio = NoAudio

Fixed == UNCHANGED << audio, subject, layers, lastReg, regCalls, store, fx >>

\* the component is created and mounted; onMounted runs up to await nextTick()
Mount(h, ids) ==
  /\ hostLife[h] = "new"
  /\ \A g \in RemountIds : hostLife[g] # "mounted"
  /\ \A g \in RemountIds : g < h => hostLife[g] = "unmounted"
  /\ hostLife' = [hostLife EXCEPT ![h] = "mounted"]
  /\ hostPc' = [hostPc EXCEPT ![h] = "await"]
  /\ active' = [active EXCEPT ![h] = ids]
  /\ trace' = << Ev("onMounted", NoLayer, h, "ok") >>
  /\ UNCHANGED << layerVars, hasCtx, rafPending, extractCalls >>
  /\ Fixed

\* An unmounted component with neither its onMounted continuation nor a frame
\* pending is unreachable: its props and locals are gone with it.
Gone(f, h, blank) == [f EXCEPT ![h] = blank]

\* setupThree: returns early without a canvas, throws without WebGL2
setupThree(w, h, canvas, gl2) ==
  IF canvas /\ ~gl2 THEN Thrown(w, Ev("setupThree", NoLayer, h, "threw")) ELSE w

\* the continuation ends with outcome w
Resumed(h, canvas, ctxOk, w) ==
  /\ Done(w)
  /\ hasCtx' = [hasCtx EXCEPT ![h] = ctxOk]
  /\ hostPc' = [hostPc EXCEPT ![h] = IF ~canvas /\ w.threw THEN "none"
                                     ELSE IF w.threw THEN "threw" ELSE "started"]
  /\ rafPending' = [rafPending EXCEPT ![h] = ~w.threw]
  /\ active' = IF ~canvas /\ w.threw THEN Gone(active, h, <<>>) ELSE active

Continue(h, canvas, gl2) ==
  Resumed(h, canvas, canvas /\ gl2,
          setLayerEnabled(initLayers(setupThree(Handler("resume", h), h, canvas, gl2),
                                     active[h], canvas /\ gl2),
                          active[h]))

\* onMounted after await nextTick(): setupThree, initLayers, setLayerEnabled, start.
\* The continuations are microtasks: they run in the order of their awaits.
Resume(h, gl2) ==
  /\ hostPc[h] = "await"
  /\ \A g \in RemountIds : g < h => hostPc[g] # "await"
  /\ Continue(h, hostLife[h] = "mounted", gl2)
  /\ UNCHANGED << hostLife, extractCalls >>
  /\ Fixed

\* props.activeLayerIds changes and the watcher runs before the next frame
SetActive(h, ids) ==
  /\ hostLife[h] = "mounted"
  /\ active' = [active EXCEPT ![h] = ids]
  /\ IF hasCtx[h]
       THEN Done(setLayerEnabled(initLayers(Handler("watch", h), ids, TRUE), ids))
       ELSE Done(Handler("watch", h))
  /\ UNCHANGED << hostLife, hostPc, hasCtx, rafPending, extractCalls >>
  /\ Fixed

\* one animation frame of host h; a frame is a task, so no continuation of an
\* await is pending when it runs
Frame(h) ==
  /\ rafPending[h]
  /\ \A g \in RemountIds : hostPc[g] # "await"
  /\ extractCalls[h] < MaxFrames
  /\ extractCalls' = [extractCalls EXCEPT ![h] = @ + 1]
  /\ Commit(loop(Handler("frame", h), h))
  /\ UNCHANGED << hostLife, hostPc, hasCtx, rafPending, active >>
  /\ Fixed

\* onUnmounted: cancel the pending frame, dispose every registered layer
Unmount(h) ==
  /\ hostLife[h] = "mounted"
  /\ hostLife' = [hostLife EXCEPT ![h] = "unmounted"]
  /\ rafPending' = [rafPending EXCEPT ![h] = FALSE]
  /\ Done(disposeEach(Handler("onUnmounted", h), all(layers)))
  /\ IF hostPc[h] = "await"
       THEN UNCHANGED << hostPc, hasCtx, active, extractCalls >>
       ELSE /\ hostPc' = Gone(hostPc, h, "none")
            /\ hasCtx' = Gone(hasCtx, h, FALSE)
            /\ active' = Gone(active, h, <<>>)
            /\ extractCalls' = Gone(extractCalls, h, 0)
  /\ Fixed

Next ==
  \/ \E h \in HostIds, ids \in ActiveChoices : Mount(h, ids)
  \/ \E h \in HostIds, gl2 \in BOOLEAN : Resume(h, gl2)
  \/ \E h \in HostIds, ids \in ActiveChoices : SetActive(h, ids)
  \/ \E h \in HostIds : Frame(h)
  \/ \E h \in HostIds : Unmount(h)

Init == InitDriver

Spec == Init /\ [][Next]_vars

\* the latest handler was a frame of host h
FrameOf(h) == trace # <<>> /\ trace[1] = Ev("frame", NoLayer, h, "ok")
\* the latest handler was the mount continuation or the watcher of host h
PassOf(h) == trace # <<>> /\ trace[1].op \in {"resume", "watch"} /\ trace[1].n = h
Calls(op) == {i \in 1..Len(trace) : trace[i].op = op}
RegisteredActive(h) == {get(layers, id) : id \in SeqRange(active[h])} \ {NoLayer}

\* C4: over any sequence of mounts, active-set changes and frames, init is
\* called at most once on each layer instance.
C4_InitExactlyOnce == \A l \in Instances : initCalls[l] <= 1

\* C8: dispose is called at most once on a layer instance, and no init or
\* update call is made on an instance after its dispose.
C8_DisposedIsTerminal ==
  /\ \A l \in Instances : disposeCalls[l] <= 1
  /\ postDispose = {}

\* C9: a frame invokes the extractor exactly once, before every update call of
\* the frame, and every update call receives the Features that invocation
\* returned.
C9_ExtractOnceBeforeUpdates ==
  \A h \in HostIds :
    FrameOf(h) =>
      /\ Cardinality(Calls("extract")) = 1
      /\ \A j \in Calls("extract") : trace[j].n = extractCalls[h]
      /\ \A i \in Calls("update") :
           \E j \in Calls("extract") : j < i /\ trace[i].n = trace[j].n

\* the second frame of a host that shows two layers, both updated
C9_Witness ==
  \E h \in HostIds :
    /\ FrameOf(h)
    /\ extractCalls[h] = 2
    /\ active[h] = << "cannon-fireworks-3d", "radial-basic-3d" >>
    /\ trace[2] = Ev("extract", NoLayer, 2, "ok")
    /\ trace[3] = Ev("update", "CannonFireworks3D", 2, "ran")
    /\ trace[4] = Ev("update", "RadialBasic3D_Line2", 2, "ran")

\* C10: when a layer's init throws during a pass over the active set, every
\* other active layer is still initialized in that pass, and when a layer's
\* update throws during a frame, every other active layer is still updated in
\* that frame.
C10_FailureIsolatedPerLayer ==
  \A h \in HostIds :
    /\ (PassOf(h) /\ \E i \in Calls("init") : trace[i].res = "threw") =>
         \A l \in RegisteredActive(h) :
           l \in initialized \/ \E i \in Calls("init") : trace[i].on = l
    /\ (FrameOf(h) /\ \E i \in Calls("update") : trace[i].res = "threw") =>
         \A l \in RegisteredActive(h) : \E i \in Calls("update") : trace[i].on = l

\* ---------------------------------------------------------------- remount specification
\* One more component instance than Spec has, each showing a single layer, with
\* nothing persisted.
SingleChoices == {q \in ActiveChoices : Len(q) = 1}

InitRemount == InitDriver /\ \A key \in StorageKeys : store[key] = Missing

NextRemount ==
  \/ \E h \in RemountIds, ids \in SingleChoices : Mount(h, ids)
  \/ \E h \in RemountIds, gl2 \in BOOLEAN : Resume(h, gl2)
  \/ \E h \in RemountIds, ids \in SingleChoices : SetActive(h, ids)
  \/ \E h \in RemountIds : Frame(h)
  \/ \E h \in RemountIds : Unmount(h)

SpecRemount == InitRemount /\ [][NextRemount]_vars

\* C6: every update call of a frame is made on a layer whose id is in the
\* active set, the activeLayerIds of the mounted component.
C6_UpdateOnlyEnabled ==
  \A h, g \in RemountIds :
    (FrameOf(h) /\ hostLife[g] = "mounted") =>
      \A i \in Calls("update") : Class(trace[i].on).id \in SeqRange(active[g])

\* ---------------------------------------------------------------- extractor specification
\* Any sequence of extract calls on one extractor, anomalous inputs included.
Silence == << NegInfinity, NegInfinity, NegInfinity >>
Tone == << Num(-100000), Num(-20000), Num(-100000) >>
Flat == << Num(-40000), Num(-40000), Num(-40000) >>

Spectra == { <<>>, Silence, Tone, << Num(-40000), NaN, Num(-40000) >> }
Loudness == { NegInfinity, Num(-20000), NaN }
SampleRates == { Num(16000), Num(44100), Num(0), NaN }
Elapsed == { 16, 100 }

Args(fftDb, rmsDb, sampleRate, dt) ==
  [fftDb |-> fftDb, rmsDb |-> rmsDb, sampleRate |-> sampleRate, dt |-> dt]

\* the input contract: dB magnitudes, -Infinity for silence, an empty spectrum
\* allowed; a positive finite sample rate
ValidInput(a) ==
  /\ \A i \in 1..Len(a.fftDb) : ~IsNaN(a.fftDb[i]) /\ a.fftDb[i] # Infinity
  /\ ~IsNaN(a.rmsDb) /\ a.rmsDb # Infinity
  /\ isFinite(a.sampleRate) /\ a.sampleRate[2] > 0

NoFeatures == [t |-> -1]
NoArgs == Args(<<>>, NaN, NaN, 0)

\* an extractor: its closure (st), the closure before the latest call (pre), the
\* Features returned by the latest call (out) and by the call before it
\* (prevOut) as they were when returned, what the object returned by the call
\* before holds now (prevNow), and the history of the inputs
createFeatureExtractor(period, sampleRate) ==
  [ impl |-> "features", logBins |-> 3, period |-> period, sampleRate |-> sampleRate,
    st |-> Fresh, pre |-> Fresh,
    out |-> NoFeatures, prevOut |-> NoFeatures, prevNow |-> NoFeatures,
    obj |-> -1, arg |-> NoArgs, calls |-> 0, valid |-> TRUE, changes |-> 0, run |-> 0 ]

\* the extractor f after a call with arguments a that gave res
Called(f, a, res) ==
  [ f EXCEPT !.st = res.st, !.pre = f.st,
             !.out = res.features, !.obj = res.obj, !.prevOut = f.out,
             !.prevNow = IF res.obj = f.obj THEN res.features ELSE f.out,
             !.arg = a, !.calls = f.calls + 1,
             !.valid = f.valid /\ ValidInput(a),
             !.changes = IF a = f.arg THEN f.changes ELSE f.changes + 1,
             !.run = IF a = f.arg THEN f.run + 1 ELSE 1 ]

notExtractor ==
  << audio, subject, layers, lastReg, regCalls, store, layerVars, hostLife, hostPc, hasCtx,
     rafPending, active, extractCalls, trace >>

Extract(a) ==
  /\ fx.calls < MaxCalls
  /\ fx' = Called(fx, a, extractFeatures(fx.st, a.fftDb, a.rmsDb, a.sampleRate, a.dt))
  /\ UNCHANGED notExtractor

InitExtract ==
  /\ subject = NoLayer
  /\ EmptyRegistry
  /\ store = [key \in StorageKeys |-> Missing]
  /\ InitLayers
  /\ IdleHosts
  /\ fx = createFeatureExtractor(0, NaN)
  /\ trace = <<>>
  /\ audio = NoAudio

NextExtract ==
  \E fftDb \in Spectra, rmsDb \in Loudness, sampleRate \in SampleRates, dt \in Elapsed :
    Extract(Args(fftDb, rmsDb, sampleRate, dt))

SpecExtract == InitExtract /\ [][NextExtract]_vars

InUnit(x) == isFinite(x) /\ x[2] >= 0 /\ x[2] <= 1000

\* the fields of the 0..1 family of a Features
UnitFamily(f) ==
  { f.rms01, f.rmsPeak01, f.energy, f.energyPeak01 }
    \cup SeqRange(f.bins) \cup SeqRange(f.binsLog) \cup SeqRange(f.binsLogRaw)
    \cup { f.bands.low, f.bands.mid, f.bands.high }
    \cup { f.bandsRaw.low, f.bandsRaw.mid, f.bandsRaw.high }

\* C13: after any sequence of extract calls with valid inputs, every field of
\* the 0..1 family of the returned Features lies in [0,1].
C13_UnitRange ==
  (fx.calls > 0 /\ fx.valid) => \A x \in UnitFamily(fx.out) : InUnit(x)

\* the state carried across calls holds finite numbers only
StateFinite(st) ==
  /\ \A x \in SeqRange(st.baseline) \cup SeqRange(st.binsPeak) \cup SeqRange(st.onsetRing) :
       isFinite(x)
  /\ isFinite(st.energy) /\ isFinite(st.energyPeak) /\ isFinite(st.rmsPeak)

NonFiniteInput(a) ==
  \/ \E i \in 1..Len(a.fftDb) : ~isFinite(a.fftDb[i])
  \/ ~isFinite(a.rmsDb)

\* C14: a call whose spectrum has -Infinity or NaN entries, or whose loudness is
\* NaN or infinite, returns 0..1 fields inside [0,1] and leaves the carried
\* state finite; a call with finite inputs returns finite 0..1 fields, whatever
\* the calls before it were given.
C14_NonFiniteContained ==
  fx.calls > 0 =>
    /\ NonFiniteInput(fx.arg) =>
         (\A x \in UnitFamily(fx.out) : InUnit(x)) /\ StateFinite(fx.st)
    /\ ~NonFiniteInput(fx.arg) => \A x \in UnitFamily(fx.out) : isFinite(x)

\* the inputs the guard is for
Anomalous(a) == Len(a.fftDb) = 0 \/ ~isFinite(a.sampleRate) \/ a.sampleRate[2] <= 0

SpectralZero(f) ==
  /\ \A x \in SeqRange(f.bins) \cup SeqRange(f.binsLog) \cup SeqRange(f.binsLogRaw) :
       x = Num(0)
  /\ f.bands = Bands(Num(0), Num(0), Num(0))
  /\ f.bandsRaw = Bands(Num(0), Num(0), Num(0))
  /\ f.centroidHz = Num(0) /\ f.rolloffHz = Num(0)

\* C15: a call with an empty spectrum or a non-finite or non-positive sample
\* rate returns zero spectral fields, the time of the call and the time since
\* the previous one, and, for a loudness that is a number, the normalized
\* loudness of this call and the energy smoothed toward it.
C15_GuardKeepsLoudness ==
  (fx.calls > 0 /\ Anomalous(fx.arg)) =>
    /\ SpectralZero(fx.out)
    /\ fx.out.t = fx.pre.lastT + fx.arg.dt /\ fx.out.dt = fx.arg.dt
    /\ (isFinite(fx.arg.rmsDb) /\ isFinite(fx.pre.energy)) =>
         /\ fx.out.rms01 = mapDb01(fx.arg.rmsDb, cfg.rmsDbMin, cfg.rmsDbMax, 1000)
         /\ fx.out.energy = energyNext(fx.pre.energy, fx.out.rms01, fx.arg.dt)

\* C16: extract([], anyLoudness, 44100) returns Features whose binsLog has
\* length 0 and whose other numeric fields are finite, at any point of a call
\* sequence.
C16_EmptySpectrum ==
  (fx.calls > 0 /\ fx.arg.fftDb = <<>> /\ fx.arg.sampleRate = Num(44100)) =>
    /\ Len(fx.out.binsLog) = 0
    /\ \A x \in (UnitFamily(fx.out) \ SeqRange(fx.out.binsLog))
                  \cup { fx.out.rmsDb, fx.out.centroidHz, fx.out.rolloffHz } : isFinite(x)

\* ---------------------------------------------------------------- steady-input specification
\* One extractor called once per frame at a fixed frame period and sample rate,
\* with inputs that are held over runs of frames: at most MaxChanges inputs,
\* each but the last held for at most MaxLead frames, the last one for at most
\* RunFrames frames.
Periods == { 16, 100 }
SteadyRates == { Num(16000), Num(44100) }
\* silence, a quiet signal, a loud signal
SteadyInputs == { << Silence, NegInfinity >>, << Flat, NegInfinity >>, << Flat, Num(-6000) >> }

SteadyFrame(a) ==
  /\ fx' = Called(fx, a, extractFeatures(fx.st, a.fftDb, a.rmsDb, a.sampleRate, a.dt))
  /\ UNCHANGED notExtractor

\* a frame whose inputs differ from those of the frame before
Feed(fftDb, rmsDb) ==
  /\ fx.changes < MaxChanges
  /\ Args(fftDb, rmsDb, fx.sampleRate, fx.period) # fx.arg
  /\ SteadyFrame(Args(fftDb, rmsDb, fx.sampleRate, fx.period))

\* a frame with the inputs of the frame before
Hold ==
  /\ fx.calls > 0
  /\ fx.run < (IF fx.changes < MaxChanges THEN MaxLead ELSE RunFrames)
  /\ SteadyFrame(fx.arg)

InitSteady ==
  /\ subject = NoLayer
  /\ EmptyRegistry
  /\ store = [key \in StorageKeys |-> Missing]
  /\ InitLayers
  /\ IdleHosts
  /\ \E period \in Periods, sampleRate \in SteadyRates :
       fx = createFeatureExtractor(period, sampleRate)
  /\ trace = <<>>
  /\ audio = NoAudio

NextSteady ==
  \/ \E in \in SteadyInputs : Feed(in[1], in[2])
  \/ Hold

SpecSteady == InitSteady /\ [][NextSteady]_vars

\* C17: when onset was true on the frame before and is false on this frame,
\* energy has fallen below the mean of the onset history window (below
\* mean - exitMargin for any margin that is not negative).
C17_OnsetHysteresis ==
  (fx.calls >= 2 /\ fx.prevOut.onset /\ ~fx.out.onset) =>
    Lt(fx.out.energy, meanOf(fx.st.onsetRing))

\* C18: after RunFrames consecutive frames of silence (every spectrum entry and
\* the loudness -Infinity), from whatever state the run started in, energy and
\* every band value are 0 and onset is false.
C18_SilenceSettles ==
  (fx.arg.fftDb = Silence /\ fx.arg.rmsDb = NegInfinity /\ fx.run >= RunFrames) =>
    /\ fx.out.energy = Num(0)
    /\ fx.out.bands = Bands(Num(0), Num(0), Num(0))
    /\ fx.out.bandsRaw = Bands(Num(0), Num(0), Num(0))
    /\ ~fx.out.onset

\* C19: after RunFrames consecutive frames with the same spectrum, 100 ms
\* apart, every binsLog value is 0 and bins has the values of the frame before,
\* none above 1.
C19_ConstantSpectrumConverges ==
  (fx.period = 100 /\ fx.run >= RunFrames) =>
    /\ \A x \in SeqRange(fx.out.binsLog) : x = Num(0)
    /\ fx.out.bins = fx.prevOut.bins
    /\ \A x \in SeqRange(fx.out.bins) : InUnit(x)

\* ---------------------------------------------------------------- snapshot specification
\* Both extractors of the repository, called frame after frame with the spectra
\* and loudness values of the analyser, a consumer keeping the object returned
\* by the frame before.
createFeatureExtractorTs(period, sampleRate) ==
  [ createFeatureExtractor(period, sampleRate) EXCEPT
      !.impl = "features.ts", !.st = FreshTs, !.pre = FreshTs ]

extractWith(f, a) ==
  IF f.impl = "features.ts"
    THEN extractTs(f.st, a.fftDb, a.rmsDb, a.sampleRate, a.dt)
    ELSE extractFeatures(f.st, a.fftDb, a.rmsDb, a.sampleRate, a.dt)

FrameSpectra == { <<>>, Silence, Tone, Flat }
FrameLoudness == { NegInfinity, Num(-20000), Num(-6000) }

Snapshot(fftDb, rmsDb) ==
  /\ fx.calls < MaxCalls
  /\ fx' = Called(fx, Args(fftDb, rmsDb, fx.sampleRate, fx.period),
                  extractWith(fx, Args(fftDb, rmsDb, fx.sampleRate, fx.period)))
  /\ UNCHANGED notExtractor

InitSnapshot ==
  /\ subject = NoLayer
  /\ EmptyRegistry
  /\ store = [key \in StorageKeys |-> Missing]
  /\ InitLayers
  /\ IdleHosts
  /\ \E period \in Periods, sampleRate \in SteadyRates :
       \/ fx = createFeatureExtractor(period, sampleRate)
       \/ fx = createFeatureExtractorTs(period, sampleRate)
  /\ trace = <<>>
  /\ audio = NoAudio

NextSnapshot == \E fftDb \in FrameSpectra, rmsDb \in FrameLoudness : Snapshot(fftDb, rmsDb)

SpecSnapshot == InitSnapshot /\ [][NextSnapshot]_vars

\* C20: the object and the arrays returned by one extract call hold, after the
\* next extract call, the values they held when they were returned.
C20_SnapshotImmutable == fx.calls >= 2 => fx.prevNow = fx.prevOut

\* ---------------------------------------------------------------- loudness path
\* The meter's reading on its way to extract: getAudioData of the audio manager,
\* the refs and the :rms binding of App.vue, the rms prop of the host.

\* x || 0 for a number x
OrZero(x) == IF IsNaN(x) THEN Num(0) ELSE x

\* getAudioData: without an analyser two empty arrays; else the analyser's
\* spectrum and [isFinite(rmsNum) ? rmsNum : 0] with rmsNum = meter.getValue() || 0
getAudioData(enhancedAnalyser, fftData, meterValue) ==
  IF ~enhancedAnalyser
    THEN [fft |-> <<>>, rms |-> <<>>]
    ELSE [fft |-> fftData,
          rms |-> << IF isFinite(OrZero(meterValue)) THEN OrZero(meterValue) ELSE Num(0) >>]

\* updateAudioData of App.vue: the refs are replaced only by a non-empty spectrum
updateAudioData(app, newData) ==
  IF Len(newData.fft) > 0
    THEN [app EXCEPT !.audioData = newData.fft, !.rmsData = newData.rms]
    ELSE app

\* :rms="rmsData[0] || 0"
rmsProp(rmsData) == IF Len(rmsData) = 0 THEN Num(0) ELSE OrZero(rmsData[1])

\* the arguments of featureExtractor(props.fft, props.rms ?? -Infinity, props.sampleRate)
hostArgs(app) == Args(app.audioData, rmsProp(app.rmsData), app.sampleRate, app.period)

\* an application frame followed by a host frame: app is the extractor record
\* with the refs of App.vue after updateAudioData
hostFrame(app, meterValue, taken) ==
  [ Called(app, hostArgs(app), extractWith(app, hostArgs(app))) EXCEPT
      !.meter = meterValue, !.taken = taken ]

MeterValues == { NegInfinity, NaN, Num(-20000), Num(-60000) }

MeterFrame(enhancedAnalyser, fftData, meterValue) ==
  /\ fx.calls < MaxCalls
  /\ fx' = hostFrame(updateAudioData(fx, getAudioData(enhancedAnalyser, fftData, meterValue)),
                     meterValue, enhancedAnalyser /\ Len(fftData) > 0)
  /\ UNCHANGED notExtractor

AppRefs == [audioData |-> <<>>, rmsData |-> <<>>, meter |-> Num(0), taken |-> FALSE]

InitLoudness ==
  /\ subject = NoLayer
  /\ EmptyRegistry
  /\ store = [key \in StorageKeys |-> Missing]
  /\ InitLayers
  /\ IdleHosts
  /\ \E period \in Periods, sampleRate \in SteadyRates :
       \/ fx = createFeatureExtractor(period, sampleRate) @@ AppRefs
       \/ fx = createFeatureExtractorTs(period, sampleRate) @@ AppRefs
  /\ trace = <<>>
  /\ audio = NoAudio

NextLoudness ==
  \E enhancedAnalyser \in BOOLEAN, fftData \in FrameSpectra, meterValue \in MeterValues :
    MeterFrame(enhancedAnalyser, fftData, meterValue)

SpecLoudness == InitLoudness /\ [][NextLoudness]_vars

\* the normalized loudness of the latest frame and the smoothed energy of a closure
deliveredLoudness(f) == IF f.impl = "features.ts" THEN f.out.rms ELSE f.out.rms01
energyIn(impl, st) == IF impl = "features.ts" THEN st.smoothedEnergy ELSE st.energy

\* C21: on a frame whose meter reading is -Infinity or NaN the normalized
\* loudness delivered to the layers is 0 and the smoothed energy does not rise.
C21_NonFiniteLoudnessIsZero ==
  (fx.calls > 0 /\ fx.taken /\ ~isFinite(fx.meter)) =>
    /\ deliveredLoudness(fx) = Num(0)
    /\ ~Gt(energyIn(fx.impl, fx.st), energyIn(fx.impl, fx.pre))

\* ---------------------------------------------------------------- end-to-end scenario
\* An extractor created with { logBins: 8 }, fed one spectrum of 8 bins with a
\* single strong bin at 44100 Hz, every 16 ms, the loudness held at one value.
ScenarioSpectrum ==
  << Num(-100000), Num(-100000), Num(-20000), Num(-100000),
     Num(-100000), Num(-100000), Num(-100000), Num(-100000) >>

ScenarioLoudness == { NegInfinity, Num(-20000), Num(-6000) }

\* the frequency of bin k of a spectrum of fftLen bins (the inverse of hzToFftIndex)
binFrequency(k, fftLen, sampleRate) == (k * (sampleRate \div 2)) \div (fftLen - 1)

\* the index, from 0, of the bin of ScenarioSpectrum that is above the others
StrongBin == CHOOSE k \in 0..7 : Gt(Element(ScenarioSpectrum, k), Num(-100000))

\* the log bin, from 0, of the strong bin's frequency
StrongLogBin == logIndex(binFrequency(StrongBin, 8, 44100), logFreqs(44100))

ScenarioFrame(rmsDb) ==
  /\ fx.calls < MaxScenario
  /\ fx.calls > 0 => rmsDb = fx.arg.rmsDb
  /\ SteadyFrame(Args(ScenarioSpectrum, rmsDb, fx.sampleRate, fx.period))

InitScenario ==
  /\ subject = NoLayer
  /\ EmptyRegistry
  /\ store = [key \in StorageKeys |-> Missing]
  /\ InitLayers
  /\ IdleHosts
  /\ fx = [createFeatureExtractor(16, Num(44100)) EXCEPT !.logBins = 8]
  /\ trace = <<>>
  /\ audio = NoAudio

NextScenario == \E rmsDb \in ScenarioLoudness : ScenarioFrame(rmsDb)

SpecScenario == InitScenario /\ [][NextScenario]_vars

\* C22 as stated: after the 50 frames bands.mid is above bands.low and
\* bands.high, and bins at the log bin of the strong bin is close to 1.
C22_MidDominates ==
  fx.calls = MaxScenario =>
    /\ Gt(fx.out.bands.mid, fx.out.bands.low)
    /\ Gt(fx.out.bands.mid, fx.out.bands.high)
    /\ Ge(Element(fx.out.bins, StrongLogBin), Num(900))

\* C22 amended: the strong bin lies at 6300 Hz, so on every frame bands.high is
\* more than twice bands.low and bands.mid; bins at the top log bin is 1 on the
\* first frame and at least 0.5 on every frame.
C22_HighDominates ==
  fx.calls > 0 =>
    /\ Gt(fx.out.bands.high, Mul(Num(2000), fx.out.bands.low))
    /\ Gt(fx.out.bands.high, Mul(Num(2000), fx.out.bands.mid))
    /\ Ge(Element(fx.out.bins, StrongLogBin), Num(500))
    /\ fx.calls = 1 => Element(fx.out.bins, StrongLogBin) = Num(1000)

C22_Witness ==
  /\ fx.calls = MaxScenario
  /\ StrongLogBin = 7
  /\ Lt(Element(fx.out.bins, StrongLogBin), Num(1000))

\* ---------------------------------------------------------------- resampling specification
\* Both extractors called with spectra of one, two and three bins.
ShortSpectra == { << Num(-20000) >>, << Num(-20000), Num(-60000) >>, Tone, Flat }

Resample(fftDb) ==
  /\ fx.calls < MaxCalls
  /\ fx' = Called(fx, Args(fftDb, Num(-20000), fx.sampleRate, fx.period),
                  extractWith(fx, Args(fftDb, Num(-20000), fx.sampleRate, fx.period)))
  /\ UNCHANGED notExtractor

NextResample == \E fftDb \in ShortSpectra : Resample(fftDb)

SpecResample == InitSnapshot /\ [][NextResample]_vars

\* the two source indices, from 0, that log bin i (from 1) of the latest call read
sourceIndices(f, i) ==
  IF f.impl = "features.ts"
    THEN { srcIndexL(Len(f.arg.fftDb), fracIndexOf(i, f.sampleRate[2], Len(f.arg.fftDb))),
           srcIndexR(Len(f.arg.fftDb), fracIndexOf(i, f.sampleRate[2], Len(f.arg.fftDb))) }
    ELSE { firstIndex(Len(f.arg.fftDb),
                      hzToFftIndex(logFreqs(f.sampleRate[2])[i], Len(f.arg.fftDb),
                                   f.sampleRate[2])),
           firstIndex(Len(f.arg.fftDb),
                      hzToFftIndex(logFreqs(f.sampleRate[2])[i], Len(f.arg.fftDb),
                                   f.sampleRate[2])) + 1 }

\* C23: for a non-empty spectrum and a valid sample rate, both source indices of
\* every log bin lie in 0 .. length - 1.
C23_IndicesInRange ==
  fx.calls > 0 =>
    \A i \in 1..Len(fx.out.binsLog) :
      sourceIndices(fx, i) \subseteq 0..(Len(fx.arg.fftDb) - 1)

\* ---------------------------------------------------------------- summaries specification
\* Both extractors, the one of part_005 created with { logBins: 5 }, called with
\* spectra of 8 bins: a strong bin at the bottom, in the middle or at the top,
\* a flat spectrum, and one at the floor of the dB range.
Strong(k) == [i \in 1..8 |-> IF i = k + 1 THEN Num(-20000) ELSE Num(-100000)]

SummarySpectra ==
  { Strong(0), Strong(2), Strong(7), [i \in 1..8 |-> Num(-40000)],
    [i \in 1..8 |-> Num(-100000)] }

Summarize(fftDb) ==
  /\ fx.calls < MaxCalls
  /\ fx' = Called(fx, Args(fftDb, Num(-20000), fx.sampleRate, fx.period),
                  extractWith(fx, Args(fftDb, Num(-20000), fx.sampleRate, fx.period)))
  /\ UNCHANGED notExtractor

InitSummaries ==
  /\ subject = NoLayer
  /\ EmptyRegistry
  /\ store = [key \in StorageKeys |-> Missing]
  /\ InitLayers
  /\ IdleHosts
  /\ \E period \in Periods, sampleRate \in SteadyRates :
       \/ fx = [createFeatureExtractor(period, sampleRate) EXCEPT !.logBins = 5]
       \/ fx = createFeatureExtractorTs(period, sampleRate)
  /\ trace = <<>>
  /\ audio = NoAudio

NextSummaries == \E fftDb \in SummarySpectra : Summarize(fftDb)

SpecSummaries == InitSummaries /\ [][NextSummaries]_vars

\* the frequencies of the log bins of extractor f
logBinFreqs(f) ==
  IF f.impl = "features.ts"
    THEN [i \in 1..Options.numLogBins |->
            LogHz(i - 1, Options.numLogBins - 1, Max(Options.minHzDefault, 1),
                  Min(Options.maxHzDefault, f.sampleRate[2] \div 2))]
    ELSE logFreqs(f.sampleRate[2])

\* C24: centroidHz is the sum over every log bin of binsLog[i] * frequency[i]
\* divided by the sum over every log bin of binsLog[i], and 0 when that sum is 0.
C24_CentroidOverAllBins ==
  fx.calls > 0 =>
    fx.out.centroidHz =
      centroidHzOf(fx.out.binsLog, Len(fx.out.binsLog), logBinFreqs(fx))

\* the weights and the frequencies of the rolloff scan of the latest call:
\* binsLog over the log-bin frequencies, or the linear magnitudes of the
\* spectrum over i * binHz
scanWeights(f) ==
  IF f.impl = "features.ts"
    THEN [i \in 1..Len(f.arg.fftDb) |-> remapDbToUnit(f.arg.fftDb[i])]
    ELSE f.out.binsLog

scanFreqs(f) ==
  IF f.impl = "features.ts"
    THEN [i \in 1..Len(f.arg.fftDb) |-> BinHz(i - 1, Len(f.arg.fftDb), f.sampleRate[2])]
    ELSE logFreqs(f.sampleRate[2])

\* the frequency of the lowest bin at which the cumulative weight reaches 85%
\* of the total, the top frequency when no bin reaches it
lowestReaching(w, hz) == Num(hz[rollCount(w, Mul(Num(850), Sum(w, Len(w))))])

\* C25: rolloffHz is the frequency of the lowest bin at which the cumulative
\* weight reaches 85% of the total weight, and the top frequency only when the
\* scan never reaches it.
C25_RolloffLowestBin ==
  fx.calls > 0 => fx.out.rolloffHz = lowestReaching(scanWeights(fx), scanFreqs(fx))

\* ---------------------------------------------------------------- setEnabled
\* the latest call was setEnabled(on) on instance l, alone
JustEnabled(l, on) ==
  /\ Len(trace) = 1
  /\ trace[1].op = "setEnabled" /\ trace[1].on = l
  /\ trace[1].n = (IF on THEN 1 ELSE 0)

\* C26: setEnabled(on), called before init, while initialized or after dispose,
\* returns normally and changes nothing but the visible flag of the objects the
\* layer holds: the parameter map, the fields, the scene membership, the
\* counters and the extractor are as before, and setEnabled(true) leaves every
\* such object visible whatever setEnabled calls came before.
C26_SetEnabledOnlyVisibility ==
  [][\A l \in Instances : \A on \in BOOLEAN :
       JustEnabled(l, on)' =>
         /\ trace'[1].res = "ok"
         /\ lstate' = lstate /\ field' = field /\ sceneObjs' = sceneObjs
         /\ initialized' = initialized /\ initCalls' = initCalls
         /\ disposeCalls' = disposeCalls
         /\ fx' = fx
         /\ hidden' = IF on THEN hidden \ Pointed(World, l, Class(l).hide)
                            ELSE hidden \cup Pointed(World, l, Class(l).hide)]_vars

C26_Witness ==
  \E l \in Instances :
    /\ JustEnabled(l, TRUE)
    /\ initCalls[l] > 0
    /\ Pointed(World, l, Class(l).hide) # {}
    /\ Pointed(World, l, Class(l).hide) \cap hidden = {}

\* ---------------------------------------------------------------- frames and unmount
\* C27: once a host is unmounted no frame of it runs: the latest handler is
\* never a frame (one extract call, the updates of the active layers) of an
\* unmounted host, also when the unmount came during await nextTick().
C27_NoFrameAfterUnmount ==
  \A h \in HostIds : hostLife[h] = "unmounted" => ~FrameOf(h)

\* ---------------------------------------------------------------- update outside the lifecycle
\* instance l has never been initialized, or has been disposed and not
\* initialized again
Uninitialized(l) ==
  \/ initCalls[l] = 0
  \/ disposeCalls[l] > 0 /\ <<l, "init">> \notin postDispose

\* C28: update(ctx, features) on a layer that has not been initialized, or that
\* has been disposed, returns at its guard: it does not throw, and it does not
\* run its body on the layer's state and scene objects.
C28_UpdateOutsideLifecycle ==
  \A l \in Instances :
    (Len(trace) = 1 /\ trace[1].op = "update" /\ trace[1].on = l /\ Uninitialized(l)) =>
      trace[1].res = "skipped"

\* ---------------------------------------------------------------- audio manager specification
\* The handlers of the file controls in any order, interleaved with the
\* continuations of the suspended calls of startPlayback and handleFileUpload
\* and with the callbacks of the interval timers.  The manager starts after
\* the initialize call of App.vue's onMounted.

notAudio == << subject, layers, lastReg, regCalls, store, layerVars, hostVars, trace >>

AudioFiles == {1, 2}
BufferDurations == {0, 2}
SeekTimes == {0, 1}

Play ==
  /\ audio.setIntervalCalls < MaxTimers
  /\ audio' = handlePlay(audio)
  /\ UNCHANGED notAudio

Pause == audio' = handlePause(audio) /\ UNCHANGED notAudio

Stop == audio' = handleStop(audio) /\ UNCHANGED notAudio

Seek(time) ==
  /\ audio.setIntervalCalls < MaxTimers
  /\ audio' = handleSeek(audio, time)
  /\ UNCHANGED notAudio

Upload(file) ==
  /\ Len(audio.uploads) < MaxUploads
  /\ audio' = handleFileUpload(audio, file)
  /\ UNCHANGED notAudio

LoadSettled(i, ok, bufferDuration) ==
  /\ audio.uploads[i].pc = "load"
  /\ audio' = uploadAfterLoad(audio, i, ok, bufferDuration)
  /\ UNCHANGED notAudio

DelayElapsed(i) ==
  /\ audio.uploads[i].pc = "delay"
  /\ audio' = uploadAfterDelay(audio, i)
  /\ UNCHANGED notAudio

ContextStarted ==
  /\ audio.startPc = "Tone.start"
  /\ audio' = startAfterContext(audio)
  /\ UNCHANGED notAudio

StopElapsed ==
  /\ audio.startPc = "stop"
  /\ audio' = startAfterStop(audio)
  /\ UNCHANGED notAudio

StartElapsed ==
  /\ audio.startPc = "start"
  /\ audio.setIntervalCalls < MaxTimers
  /\ audio' = startAfterStart(audio)
  /\ UNCHANGED notAudio

TimeUpdate(id) ==
  /\ id \in audio.intervals
  /\ audio' = timeUpdate(audio)
  /\ UNCHANGED notAudio

InitAudio ==
  /\ subject = NoLayer
  /\ EmptyRegistry
  /\ store = [key \in StorageKeys |-> Missing]
  /\ InitLayers
  /\ InitHosts
  /\ \E running \in BOOLEAN : audio = initialize(useSimpleAudioManager, running)
  /\ trace = <<>>

NextAudio ==
  \/ Play
  \/ Pause
  \/ Stop
  \/ \E time \in SeekTimes : Seek(time)
  \/ \E file \in AudioFiles \cup {0} : Upload(file)
  \/ \E i \in 1..Len(audio.uploads), ok \in BOOLEAN, bufferDuration \in BufferDurations :
       LoadSettled(i, ok, bufferDuration)
  \/ \E i \in 1..Len(audio.uploads) : DelayElapsed(i)
  \/ ContextStarted
  \/ StopElapsed
  \/ StartElapsed
  \/ \E id \in 1..MaxTimers : TimeUpdate(id)

SpecAudio == InitAudio /\ [][NextAudio]_vars

\* C29: at most one time-update interval timer is live at any time, and it is
\* the one timeUpdateTimer holds: no assignment of a new timer to
\* timeUpdateTimer leaves an uncleared one behind.
C29_OneTimeUpdateTimer ==
  /\ Cardinality(audio.intervals) <= 1
  /\ audio.intervals \subseteq {audio.timeUpdateTimer}

\* ---------------------------------------------------------------- running maxima
\* the running maxima a closure of part_005 carries bound the values of its latest call
peaksBound(st, out) ==
  /\ Len(st.binsPeak) = Len(out.binsLog)
  /\ \A i \in 1..Len(out.binsLog) : Ge(st.binsPeak[i], out.binsLog[i])
  /\ Ge(st.rmsPeak, out.rms01)
  /\ Ge(st.energyPeak, st.energy)

\* Thousandths do not resolve the 1e-6 that rmsPeak and energyPeak start from:
\* for these two the model can tell a number that is not negative from NaN, not
\* a tiny positive number from 0.  binsPeak starts from 0.
peaksPositive(st) ==
  /\ \A i \in 1..Len(st.binsPeak) : Gt(st.binsPeak[i], Num(0))
  /\ Ge(st.rmsPeak, Num(0))
  /\ Ge(st.energyPeak, Num(0))

\* C30: after every extract call that passes the guard, binsPeak[i] >= binsLog[i]
\* for every bin, rmsPeak >= rms01 and energyPeak >= energy, and every running
\* maximum is a positive number.
C30_PeaksBoundValues ==
  (fx.calls > 0 /\ ~Anomalous(fx.arg)) => peaksBound(fx.st, fx.out) /\ peaksPositive(fx.st)

====
